---- MODULE Spec2Model ----
(***************************************************************************)
(* A model of the TaskFlow task/category store and of the request handlers *)
(* that read and write it (src/task/models.py, serializers.py, views.py,   *)
(* dashboard_views.py, forms.py).                                          *)
(*                                                                         *)
(* The store is two tables, tasks and cats, keyed by auto-increment ids.   *)
(* Every handler is one action; the handlers whose interleaving matters    *)
(* (the bulk update, the category delete) also exist split into the steps  *)
(* between which other requests can run (ConcSpec, DeleteSpec).            *)
(***************************************************************************)
EXTENDS Integers, Sequences, FiniteSets, TLC

\* ------------------------------------------------------------------ bounds
MaxTasks == 2
MaxCats == 2
MaxTime == 2
MaxNameLen == 2

\* --------------------------------------------------------------- constants
Users == {"alice", "bob"}
TaskIds == 1..MaxTasks
CatIds == 1..MaxCats
Times == 1..MaxTime

\* NULL of a DateTimeField (times are 1..MaxTime) and of the custom_category
\* foreign key (category ids are 1..MaxCats); None of the category CharField.
NoTime == 0
NoCat == 0
NoCategory == "NONE"

PRIORITY_CHOICES == {"HIGH", "MEDIUM", "LOW"}
CATEGORY_CHOICES ==
    {"WORK", "PERSONAL", "FITNESS", "SHOPPING", "HEALTH", "EDUCATION", "FINANCE", "OTHER"}

HTTP_200_OK == 200
HTTP_201_CREATED == 201
HTTP_400_BAD_REQUEST == 400
HTTP_403_FORBIDDEN == 403
HTTP_404_NOT_FOUND == 404

\* ------------------------------------------------------------------ strings
\* A string is a sequence of characters; the cased letters are a and b, and
\* the names that requests carry are written with a, A and the blank.
Letters == {"a", "b"}
Capitals == {"A", "B"}
Chars == {"a", "A", " "}

UpperChar(c) == CASE c = "a" -> "A" [] c = "b" -> "B" [] OTHER -> c
LowerChar(c) == CASE c = "A" -> "a" [] c = "B" -> "b" [] OTHER -> c
IsCased(c) == c \in Letters \cup Capitals

\* str.lower()
Lower(s) == [i \in 1..Len(s) |-> LowerChar(s[i])]

\* str.title(): a cased character is upper-cased when it follows an uncased
\* character (or starts the string) and lower-cased when it follows a cased one.
TitleCaseMutant(s) == s
TitleCase(s) ==
    [i \in 1..Len(s) |->
        IF i > 1 /\ IsCased(s[i - 1]) THEN LowerChar(s[i]) ELSE UpperChar(s[i])]

\* str.strip(): drops leading and trailing blanks.
RECURSIVE LStrip(_)
LStrip(s) == IF s # << >> /\ Head(s) = " " THEN LStrip(Tail(s)) ELSE s
RECURSIVE RStrip(_)
RStrip(s) ==
    IF s # << >> /\ s[Len(s)] = " " THEN RStrip(SubSeq(s, 1, Len(s) - 1)) ELSE s
Strip(s) == LStrip(RStrip(s))

\* name__iexact: case-insensitive equality
IExactMutant(a, b) == a = b
IExact(a, b) == Lower(a) = Lower(b)

\* Every string of at most n characters.
StringsUpTo(n) == UNION {[1..k -> Chars] : k \in 0..n}

\* ------------------------------------------------------------------- state
VARIABLES
    tasks,       \* Task table: id -> row, for the ids that exist
    nextTaskId,  \* the Task table's auto-increment counter
    cats,        \* Category table: id -> row, for the ids that exist
    nextCatId,   \* the Category table's auto-increment counter
    now,         \* timezone.now()
    resp,        \* the response to the last request
    bulk,        \* the bulk update in flight (ConcSpec, DeleteSpec)
    cdel,        \* the category delete in flight (DeleteSpec)
    stats,       \* the statistics request in flight (StatsSpec)
    edit,        \* the task update or toggle in flight (EditSpec)
    auth         \* the User, UserProfile and Token tables (AuthSpec)

store == <<tasks, nextTaskId, cats, nextCatId>>
\* What no task or category request served whole touches: the requests in
\* flight and the tables of the authentication app.
flight == <<bulk, cdel, stats, edit, auth>>
vars == <<tasks, nextTaskId, cats, nextCatId, now, resp, bulk, cdel, stats, edit, auth>>

Idle == [pc |-> "idle"]

\* The tables of the authentication app before anybody has registered: no
\* User rows, no UserProfile rows, no Token rows; nextKey numbers the token
\* keys generated so far.
NoAccounts == [users |-> << >>, profiles |-> << >>, tokens |-> {}, nextKey |-> 1]

\* The response of a handler: the request it answers (op, user, id), the
\* status code, the count it reports and the task ids it lists; given is the
\* task_ids list of a bulk request.
Response(op, u, id, status, count, ids) ==
    [op |-> op, user |-> u, id |-> id, status |-> status, count |-> count, ids |-> ids,
     given |-> {}]

NoResponse == Response("none", "alice", 0, 0, 0, {})

Init ==
    /\ tasks = << >>
    /\ nextTaskId = 1
    /\ cats = << >>
    /\ nextCatId = 1
    /\ now = 1
    /\ resp = NoResponse
    /\ bulk = Idle
    /\ cdel = Idle
    /\ stats = Idle
    /\ edit = Idle
    /\ auth = NoAccounts

\* --------------------------------------------------------------- the tables
\* A table with row r stored under id (an UPDATE of the row, or its INSERT).
Put(table, id, r) == [i \in DOMAIN table \cup {id} |-> IF i = id THEN r ELSE table[i]]

\* A table without the row id.
Remove(table, id) == [i \in DOMAIN table \ {id} |-> table[i]]

\* Task.objects.filter(user=request.user): the ids of the user's tasks.
UserTasks(table, u) == {i \in DOMAIN table : table[i].user = u}

\* Category.objects.filter(user=request.user)
UserCats(table, u) == {i \in DOMAIN table : table[i].user = u}

\* category.task_set: the tasks that reference the category.
TaskSetMutant(table, c) == {}
TaskSet(table, c) == {i \in DOMAIN table : table[i].custom_category = c}

\* ---------------------------------------------------------------- Task.save
\* Task.save: a completed task without completed_at gets now, a pending task
\* loses completed_at; the row is then written whole.
TaskSave(t, clock) ==
    IF t.is_completed /\ t.completed_at = NoTime
    THEN [t EXCEPT !.completed_at = clock]
    ELSE IF ~t.is_completed
         THEN [t EXCEPT !.completed_at = NoTime]
         ELSE t

\* Task.clean: a task with neither category gets the default category OTHER.
TaskClean(t) ==
    IF t.category = NoCategory /\ t.custom_category = NoCat
    THEN [t EXCEPT !.category = "OTHER"]
    ELSE t

\* A new Task instance with the model's field defaults.
NewTask(u, title, priority, category, custom, due) ==
    [user |-> u, title |-> title, priority |-> priority, category |-> category,
     custom_category |-> custom, due_date |-> due,
     is_completed |-> FALSE, completed_at |-> NoTime]

\* ------------------------------------------------------------- request data
\* The values a JSON body can carry for is_completed where the handler reads
\* request.data itself: absent/null, the two booleans, and a non-empty string.
JsonNull == "null"
JsonTrue == "true"
JsonFalse == "false"
JsonStrFalse == "'False'"
JsonBooleans == {JsonTrue, JsonFalse}
JsonValues == {JsonNull, JsonTrue, JsonFalse, JsonStrFalse}

\* Python truth value of a request value (None and False are false, a
\* non-empty string is true).
Truthy(v) == v \in {JsonTrue, JsonStrFalse}

\* BooleanField.to_python, applied when the row is written: True, "True", "t"
\* and "1" are stored as true, False, "False", "f" and "0" as false.
ToPython(v) == v = JsonTrue

TitleMaxLength == 200
TitleMinLength == 3

\* --------------------------------------------------------------- get_object
\* GenericAPIView.get_object over get_queryset() = filter(user=request.user):
\* 404 when the id is not among the requester's rows, then the object
\* permission obj.user == request.user (403 when it fails).
GetObjectStatusMutant(table, u, id) ==
    IF id \notin DOMAIN table THEN HTTP_404_NOT_FOUND
    ELSE IF table[id].user = u THEN HTTP_200_OK ELSE HTTP_403_FORBIDDEN
GetObjectStatus(table, u, id) ==
    IF id \notin UserTasks(table, u) THEN HTTP_404_NOT_FOUND
    ELSE IF table[id].user = u THEN HTTP_200_OK ELSE HTTP_403_FORBIDDEN

\* get_object_or_404(Task, id=task_id, user=request.user)
GetObjectOr404Mutant(table, u, id) ==
    IF id \in DOMAIN table THEN HTTP_200_OK ELSE HTTP_404_NOT_FOUND
GetObjectOr404(table, u, id) ==
    IF id \in UserTasks(table, u) THEN HTTP_200_OK ELSE HTTP_404_NOT_FOUND

\* ------------------------------------------------------------ serializers
\* TaskCreateSerializer / TaskUpdateSerializer title: the CharField trims the
\* value, rejects a blank one and one longer than max_length; validate_title
\* rejects an empty strip() and returns the stripped value.
SerializerTitleOk(title) ==
    /\ Strip(title) # << >>
    /\ Len(Strip(title)) <= TitleMaxLength

\* TaskCreateSerializer.validate: custom_category must exist (the related
\* field's lookup) and belong to the requester.
CustomCategoryOk(u, custom) ==
    custom # NoCat => (custom \in DOMAIN cats /\ cats[custom].user = u)

\* The writable fields of TaskCreateSerializer and of TaskUpdateSerializer
\* (Meta.fields); what else a request body carries is dropped by validation.
CreateFields == {"title", "description", "due_date", "priority", "category", "custom_category"}
UpdateFieldsMutant == CreateFields \cup {"is_completed", "user"}
UpdateFields == {"title", "description", "due_date", "priority", "category", "is_completed"}

\* ModelSerializer.update: the supplied writable fields are set on the instance.
ApplyPatch(t, patch) ==
    [f \in DOMAIN t |->
        IF f \in DOMAIN patch \cap UpdateFields
        THEN (IF f = "title" THEN Strip(patch[f]) ELSE patch[f])
        ELSE t[f]]

\* TaskUpdateSerializer validation: title as above when supplied, and required
\* unless the update is partial (PATCH).
UpdateValid(patch, partial) ==
    /\ "title" \in DOMAIN patch => SerializerTitleOk(patch.title)
    /\ ~partial => "title" \in DOMAIN patch

\* ----------------------------------------------------------- task handlers
\* serializer.save(user=request.user) of a valid create: the validated fields
\* of the body over the model's defaults, and the requester as owner.
SaveUserMutant(u, data) == IF "user" \in DOMAIN data THEN data.user ELSE u
SaveUser(u, data) == u
CreateInstance(u, data) ==
    [f \in DOMAIN NewTask(u, << >>, "MEDIUM", NoCategory, NoCat, NoTime) |->
        IF f = "user" THEN SaveUser(u, data)
        ELSE IF f \in DOMAIN data \cap CreateFields
        THEN (IF f = "title" THEN Strip(data[f]) ELSE data[f])
        ELSE NewTask(u, << >>, "MEDIUM", NoCategory, NoCat, NoTime)[f]]

\* TaskCreateSerializer validation of a request body: the title is required
\* and not blank, the custom category is the requester's.
CreateValid(u, data) ==
    /\ "title" \in DOMAIN data
    /\ SerializerTitleOk(data.title)
    /\ "custom_category" \in DOMAIN data => CustomCategoryOk(u, data.custom_category)

\* TaskCreateAPIView.create for the request body data.
TaskCreate(u, data) ==
    /\ nextTaskId <= MaxTasks
    /\ IF CreateValid(u, data)
       THEN /\ tasks' = Put(tasks, nextTaskId, TaskSave(CreateInstance(u, data), now))
            /\ nextTaskId' = nextTaskId + 1
            /\ resp' = Response("create", u, nextTaskId, HTTP_201_CREATED, 0, {})
       ELSE /\ resp' = Response("create", u, 0, HTTP_400_BAD_REQUEST, 0, {})
            /\ UNCHANGED <<tasks, nextTaskId>>
    /\ UNCHANGED <<cats, nextCatId, now, flight>>

\* TaskCreateAPIView.create for a body with these five fields.
TaskCreateAPIView(u, title, priority, category, custom, due) ==
    TaskCreate(u, [title |-> title, priority |-> priority, category |-> category,
                   custom_category |-> custom, due_date |-> due])

\* What TaskRetrieveAPIView.retrieve answers to (u, id) over a Task table.
RetrieveResponse(table, u, id) ==
    Response("retrieve", u, id, GetObjectStatus(table, u, id), 0,
             IF GetObjectStatus(table, u, id) = HTTP_200_OK THEN {id} ELSE {})

\* What TaskUpdateAPIView.update answers: get_object comes first, then the
\* serializer's validation.
UpdateResponse(table, u, id, patch, partial) ==
    IF GetObjectStatus(table, u, id) # HTTP_200_OK
    THEN Response("update", u, id, GetObjectStatus(table, u, id), 0, {})
    ELSE IF ~UpdateValid(patch, partial)
    THEN Response("update", u, id, HTTP_400_BAD_REQUEST, 0, {})
    ELSE Response("update", u, id, HTTP_200_OK, 0, {id})

\* What TaskDestroyAPIView.destroy answers.
DestroyResponse(table, u, id) ==
    Response("destroy", u, id, GetObjectStatus(table, u, id), 0, {})

\* TaskRetrieveAPIView.retrieve
TaskRetrieveAPIView(u, id) ==
    /\ resp' = RetrieveResponse(tasks, u, id)
    /\ UNCHANGED <<store, now, flight>>

\* TaskUpdateAPIView.update / partial_update
TaskUpdateAPIView(u, id, patch, partial) ==
    /\ resp' = UpdateResponse(tasks, u, id, patch, partial)
    /\ IF UpdateResponse(tasks, u, id, patch, partial).status = HTTP_200_OK
       THEN tasks' = Put(tasks, id, TaskSave(ApplyPatch(tasks[id], patch), now))
       ELSE UNCHANGED tasks
    /\ UNCHANGED <<nextTaskId, cats, nextCatId, now, flight>>

\* TaskDestroyAPIView.destroy
TaskDestroyAPIView(u, id) ==
    /\ resp' = DestroyResponse(tasks, u, id)
    /\ IF DestroyResponse(tasks, u, id).status = HTTP_200_OK
       THEN tasks' = Remove(tasks, id)
       ELSE UNCHANGED tasks
    /\ UNCHANGED <<nextTaskId, cats, nextCatId, now, flight>>

\* ------------------------------------------------------------- bulk update
\* Task.objects.filter(id__in=task_ids, user=request.user)
BulkMatchedMutant(table, u, ids) == ids \cap DOMAIN table
BulkMatched(table, u, ids) == ids \cap UserTasks(table, u)

\* One pass of the loop body: task.is_completed = is_completed; task.save().
\* Task.save sees the request value as Python does; the row stores what
\* BooleanField.to_python makes of it.
BulkSaveOneMutant(t, v, clock) == [t EXCEPT !.is_completed = ToPython(v)]
BulkSaveOne(t, v, clock) ==
    [TaskSave([t EXCEPT !.is_completed = Truthy(v)], clock)
        EXCEPT !.is_completed = ToPython(v)]

\* The response of the bulk update to the request (u, ids).
BulkResponse(u, ids, status, matched) ==
    [Response("bulk", u, 0, status, Cardinality(matched), matched) EXCEPT !.given = ids]

\* BulkTaskStatusUpdateAPIView.patch
BulkTaskStatusUpdateAPIView(u, ids, v) ==
    /\ bulk.pc = "idle"
    /\ IF ids = {} \/ v = JsonNull
       THEN /\ resp' = BulkResponse(u, ids, HTTP_400_BAD_REQUEST, {})
            /\ UNCHANGED tasks
       ELSE IF BulkMatched(tasks, u, ids) = {}
       THEN /\ resp' = BulkResponse(u, ids, HTTP_404_NOT_FOUND, {})
            /\ UNCHANGED tasks
       ELSE /\ tasks' = [i \in DOMAIN tasks |->
                            IF i \in BulkMatched(tasks, u, ids)
                            THEN BulkSaveOne(tasks[i], v, now)
                            ELSE tasks[i]]
            /\ resp' = BulkResponse(u, ids, HTTP_200_OK, BulkMatched(tasks, u, ids))
    /\ UNCHANGED <<nextTaskId, cats, nextCatId, now, flight>>

\* ------------------------------------------------------------ web handlers
HTTP_302_FOUND == 302

\* TaskForm.clean_title: strips the title and wants 3 to 200 characters.
FormTitleOk(title) ==
    /\ Strip(title) # << >>
    /\ Len(Strip(title)) >= TitleMinLength
    /\ Len(Strip(title)) <= TitleMaxLength

\* task_detail_view
task_detail_view(u, id) ==
    /\ resp' = Response("web_detail", u, id, GetObjectOr404(tasks, u, id), 0,
                        IF GetObjectOr404(tasks, u, id) = HTTP_200_OK THEN {id} ELSE {})
    /\ UNCHANGED <<store, now, flight>>

\* task_create_view (POST): the form validates, Task.clean runs in the form's
\* model validation, the owner is set and the task saved.
task_create_view(u, title, priority, category, due) ==
    /\ nextTaskId <= MaxTasks
    /\ IF FormTitleOk(title)
       THEN /\ tasks' = Put(tasks, nextTaskId,
                 TaskSave(TaskClean(NewTask(u, Strip(title), priority, category, NoCat, due)), now))
            /\ nextTaskId' = nextTaskId + 1
            /\ resp' = Response("web_create", u, nextTaskId, HTTP_302_FOUND, 0, {})
       ELSE /\ resp' = Response("web_create", u, 0, HTTP_200_OK, 0, {})
            /\ UNCHANGED <<tasks, nextTaskId>>
    /\ UNCHANGED <<cats, nextCatId, now, flight>>

\* task_edit_view (POST): the form's fields replace the instance's.
task_edit_view(u, id, title, priority, category, due) ==
    /\ IF GetObjectOr404(tasks, u, id) # HTTP_200_OK
       THEN /\ resp' = Response("web_edit", u, id, HTTP_404_NOT_FOUND, 0, {})
            /\ UNCHANGED tasks
       ELSE IF ~FormTitleOk(title)
       THEN /\ resp' = Response("web_edit", u, id, HTTP_200_OK, 0, {})
            /\ UNCHANGED tasks
       ELSE /\ tasks' = Put(tasks, id,
                 TaskSave(TaskClean([tasks[id] EXCEPT !.title = Strip(title),
                                                      !.priority = priority,
                                                      !.category = category,
                                                      !.due_date = due]), now))
            /\ resp' = Response("web_edit", u, id, HTTP_302_FOUND, 0, {})
    /\ UNCHANGED <<nextTaskId, cats, nextCatId, now, flight>>

\* task_delete_view (POST)
task_delete_view(u, id) ==
    /\ IF GetObjectOr404(tasks, u, id) # HTTP_200_OK
       THEN /\ resp' = Response("web_delete", u, id, HTTP_404_NOT_FOUND, 0, {})
            /\ UNCHANGED tasks
       ELSE /\ tasks' = Remove(tasks, id)
            /\ resp' = Response("web_delete", u, id, HTTP_302_FOUND, 0, {})
    /\ UNCHANGED <<nextTaskId, cats, nextCatId, now, flight>>

\* toggle_task_complete: flips is_completed, sets completed_at itself, saves.
toggle_task_complete(u, id) ==
    /\ IF GetObjectOr404(tasks, u, id) # HTTP_200_OK
       THEN /\ resp' = Response("toggle", u, id, HTTP_404_NOT_FOUND, 0, {})
            /\ UNCHANGED tasks
       ELSE /\ tasks' = Put(tasks, id,
                 TaskSave([tasks[id] EXCEPT
                              !.is_completed = ~tasks[id].is_completed,
                              !.completed_at = IF ~tasks[id].is_completed THEN now ELSE NoTime],
                          now))
            /\ resp' = Response("toggle", u, id, HTTP_200_OK, 0, {})
    /\ UNCHANGED <<nextTaskId, cats, nextCatId, now, flight>>

\* Time passes.
Tick ==
    /\ now < MaxTime
    /\ now' = now + 1
    /\ UNCHANGED <<store, resp, flight>>

\* ------------------------------------------------------------------ inputs
\* Request ids: every id the tables can hold, whether or not it exists.
TitleInputs == {<<"a", "b", "a">>, <<" ">>}
PriorityInputs == {"MEDIUM", "HIGH"}
PatchInputs ==
    {[is_completed |-> TRUE], [is_completed |-> FALSE], [priority |-> "HIGH"],
     [title |-> <<" ">>]}

\* ------------------------------------------------------------------- Spec
\* The task handlers, each request served whole before the next one.
Next ==
    \/ \E u \in Users, title \in TitleInputs, p \in PriorityInputs :
          TaskCreateAPIView(u, title, p, "WORK", NoCat, NoTime)
    \/ \E u \in Users, id \in TaskIds : TaskRetrieveAPIView(u, id)
    \/ \E u \in Users, id \in TaskIds, patch \in PatchInputs, partial \in BOOLEAN :
          TaskUpdateAPIView(u, id, patch, partial)
    \/ \E u \in Users, id \in TaskIds : TaskDestroyAPIView(u, id)
    \/ \E u \in Users, ids \in SUBSET TaskIds, v \in JsonValues :
          BulkTaskStatusUpdateAPIView(u, ids, v)
    \/ \E u \in Users, id \in TaskIds : task_detail_view(u, id)
    \/ \E u \in Users, title \in TitleInputs :
          task_create_view(u, title, "MEDIUM", "WORK", NoTime)
    \/ \E u \in Users, id \in TaskIds, title \in TitleInputs, p \in PriorityInputs :
          task_edit_view(u, id, title, p, "WORK", NoTime)
    \/ \E u \in Users, id \in TaskIds : task_delete_view(u, id)
    \/ \E u \in Users, id \in TaskIds : toggle_task_complete(u, id)
    \/ Tick

Spec == Init /\ [][Next]_vars

\* --------------------------------------------------------------- list reads
\* The date of a time: TicksPerDay ticks of the clock make a day.
TicksPerDay == 2
DateOf(t) == t \div TicksPerDay

\* A query parameter that the request does not carry.
NoParam == "none"

\* The query of a list request without any parameter.
NoFilters ==
    [status |-> NoParam, due |-> NoParam, priority |-> NoParam, category |-> NoParam,
     is_completed |-> NoParam]

\* ?status=completed / ?status=pending, as the list views' get_queryset read it.
StatusFilter(table, ids, status) ==
    IF status = "completed" THEN {i \in ids : table[i].is_completed}
    ELSE IF status = "pending" THEN {i \in ids : ~table[i].is_completed}
    ELSE ids

\* ?due=today / ?due=overdue of TaskListAPIView.get_queryset; a NULL due_date
\* matches neither.
DueFilter(table, ids, due, clock) ==
    IF due = "today"
    THEN {i \in ids : table[i].due_date # NoTime /\ DateOf(table[i].due_date) = DateOf(clock)}
    ELSE IF due = "overdue"
    THEN {i \in ids : /\ table[i].due_date # NoTime
                      /\ table[i].due_date < clock
                      /\ ~table[i].is_completed}
    ELSE ids

\* DjangoFilterBackend over filterset_fields: exact matches on the fields the
\* query carries.
FilterSet(table, ids, q) ==
    {i \in ids :
        /\ q.priority # NoParam => table[i].priority = q.priority
        /\ q.category # NoParam => table[i].category = q.category
        /\ q.is_completed # NoParam => table[i].is_completed = (q.is_completed = "true")}

\* Task.objects.filter(user=request.user), the base of every list queryset.
ListBaseMutant(table, u) == DOMAIN table
ListBase(table, u) == UserTasks(table, u)

\* filter_queryset(get_queryset()) of TaskListAPIView
TaskListQueryset(table, u, q, clock) ==
    FilterSet(table,
              DueFilter(table, StatusFilter(table, ListBase(table, u), q.status), q.due, clock),
              q)

\* CompletedTasksAPIView: filter(user=request.user, is_completed=True)
CompletedQueryset(table, u, q) ==
    FilterSet(table, {i \in ListBase(table, u) : table[i].is_completed},
              [q EXCEPT !.is_completed = NoParam])

\* PendingTasksAPIView: filter(user=request.user, is_completed=False)
PendingQueryset(table, u, q) ==
    FilterSet(table, {i \in ListBase(table, u) : ~table[i].is_completed},
              [q EXCEPT !.is_completed = NoParam])

\* A queryset that takes a task once for each of the two conditions it meets
\* and does not look at is_completed.
UrgentQuerysetMutant(table, u, clock) ==
    {i \in ListBase(table, u) :
        \/ table[i].priority = "HIGH"
        \/ (table[i].due_date # NoTime /\ table[i].due_date < clock)}

\* UrgentTasksAPIView: pending tasks that are HIGH priority or past their due
\* date.
UrgentQueryset(table, u, clock) ==
    {i \in ListBase(table, u) :
        /\ ~table[i].is_completed
        /\ \/ table[i].priority = "HIGH"
           \/ (table[i].due_date # NoTime /\ table[i].due_date < clock)}

\* TasksByCategoryAPIView: filter(user=request.user, category=category.upper())
ByCategoryQueryset(table, u, category, status) ==
    StatusFilter(table, {i \in ListBase(table, u) : table[i].category = category}, status)

\* TasksByPriorityAPIView: filter(user=request.user, priority=priority.upper())
ByPriorityQueryset(table, u, priority, status) ==
    StatusFilter(table, {i \in ListBase(table, u) : table[i].priority = priority}, status)

\* The response of a list view: 200 with the queryset's tasks and their count.
ListResponse(op, u, ids) == Response(op, u, 0, HTTP_200_OK, Cardinality(ids), ids)

\* TaskListAPIView.list
TaskListAPIView(u, q) ==
    /\ resp' = ListResponse("list", u, TaskListQueryset(tasks, u, q, now))
    /\ UNCHANGED <<store, now, flight>>

\* CompletedTasksAPIView.list
CompletedTasksAPIView(u, q) ==
    /\ resp' = ListResponse("completed", u, CompletedQueryset(tasks, u, q))
    /\ UNCHANGED <<store, now, flight>>

\* PendingTasksAPIView.list: the pending tasks, and overdue_count, the number
\* of them whose due date is before now.
PendingTasksAPIView(u, q) ==
    /\ resp' = ListResponse("pending", u, PendingQueryset(tasks, u, q))
                @@ [overdue_count |->
                        Cardinality({i \in PendingQueryset(tasks, u, q) :
                            tasks[i].due_date # NoTime /\ tasks[i].due_date < now})]
    /\ UNCHANGED <<store, now, flight>>

\* UrgentTasksAPIView.list
UrgentTasksAPIView(u) ==
    /\ resp' = ListResponse("urgent", u, UrgentQueryset(tasks, u, now))
    /\ UNCHANGED <<store, now, flight>>

\* TasksByCategoryAPIView.list
TasksByCategoryAPIView(u, category, status) ==
    /\ resp' = ListResponse("by_category", u, ByCategoryQueryset(tasks, u, category, status))
    /\ UNCHANGED <<store, now, flight>>

\* TasksByPriorityAPIView.list
TasksByPriorityAPIView(u, priority, status) ==
    /\ resp' = ListResponse("by_priority", u, ByPriorityQueryset(tasks, u, priority, status))
    /\ UNCHANGED <<store, now, flight>>

\* ---------------------------------------------------------------- ListSpec
\* The tasks the list requests are run over: three kinds of task, made by
\* either user, completed, reopened and deleted at any time.
TaskKinds ==
    {[priority |-> "HIGH", category |-> "WORK", due |-> NoTime],
     [priority |-> "LOW", category |-> NoCategory, due |-> 1],
     [priority |-> "LOW", category |-> "WORK", due |-> NoTime]}

ListQueries ==
    {NoFilters,
     [NoFilters EXCEPT !.status = "completed"],
     [NoFilters EXCEPT !.status = "pending", !.priority = "LOW"],
     [NoFilters EXCEPT !.due = "today"],
     [NoFilters EXCEPT !.due = "overdue"],
     [NoFilters EXCEPT !.category = "WORK", !.is_completed = "true"]}

StatusInputs == {NoParam, "completed", "pending"}

ListNext ==
    \/ \E u \in Users, k \in TaskKinds :
          TaskCreateAPIView(u, <<"a", "b", "a">>, k.priority, k.category, NoCat, k.due)
    \/ \E u \in Users, id \in TaskIds : toggle_task_complete(u, id)
    \/ \E u \in Users, id \in TaskIds : TaskDestroyAPIView(u, id)
    \/ \E u \in Users, q \in ListQueries : TaskListAPIView(u, q)
    \/ \E u \in Users, q \in ListQueries : CompletedTasksAPIView(u, q)
    \/ \E u \in Users, q \in ListQueries : PendingTasksAPIView(u, q)
    \/ \E u \in Users : UrgentTasksAPIView(u)
    \/ \E u \in Users, status \in StatusInputs : TasksByCategoryAPIView(u, "WORK", status)
    \/ \E u \in Users, status \in StatusInputs : TasksByPriorityAPIView(u, "HIGH", status)
    \/ Tick

ListSpec == Init /\ [][ListNext]_vars

\* -------------------------------------------------------------- categories
HTTP_500_INTERNAL_SERVER_ERROR == 500
CategoryNameMaxLength == 50

\* Category.clean, which Category.save runs first: the name in title case.
\* The default of Category.color, and validate_color of the category
\* serializers: a value is refused when it does not start with # or is not
\* seven characters long.
DefaultColor == "#007BFF"
StartsWithHash(v) == v \in {"#007BFF", "#FF0000", "#FFF"}
ColorLen(v) == CASE v = "#FFF" -> 4 [] v = "red" -> 3 [] OTHER -> 7
ValidateColorOk(v) == ~(~StartsWithHash(v) \/ ColorLen(v) # 7)

CategoryClean(c) == IF c.name # << >> THEN [c EXCEPT !.name = TitleCase(c.name)] ELSE c

\* Category.objects.filter(user=user, name__iexact=value.strip()) without the
\* rows in except: the requester's categories of that name, case ignored.
NameMatches(table, u, name, except) ==
    {i \in UserCats(table, u) \ except : IExact(table[i].name, Strip(name))}

\* validate_name of CategoryCreateSerializer and CategoryUpdateSerializer:
\* the name is not blank, fits the field, and no other category of the
\* requester has it.
ValidateNameOk(table, u, name, except) ==
    /\ Strip(name) # << >>
    /\ Len(Strip(name)) <= CategoryNameMaxLength
    /\ NameMatches(table, u, name, except) = {}

\* unique_together = ['name', 'user'], which the database checks on every
\* write of a row.
UniqueTogetherOk(table, id, c) ==
    \A i \in DOMAIN table \ {id} : ~(table[i].user = c.user /\ table[i].name = c.name)

\* What CustomCategoryCreateAPIView.create makes of the Category table for
\* the request (u, name), the next free id being next: the status it answers,
\* the new category's id and the table afterwards.
CategoryCreateOutcome(table, next, u, name) ==
    LET c == CategoryClean([user |-> u, name |-> TitleCase(Strip(name)),
                            color |-> DefaultColor])
    IN IF ~ValidateNameOk(table, u, name, {})
       THEN [status |-> HTTP_400_BAD_REQUEST, id |-> 0, cats |-> table]
       ELSE IF ~UniqueTogetherOk(table, next, c)
       THEN [status |-> HTTP_500_INTERNAL_SERVER_ERROR, id |-> 0, cats |-> table]
       ELSE [status |-> HTTP_201_CREATED, id |-> next, cats |-> Put(table, next, c)]

\* CustomCategoryCreateAPIView.create
CustomCategoryCreateAPIView(u, name) ==
    LET o == CategoryCreateOutcome(cats, nextCatId, u, name)
    IN /\ nextCatId <= MaxCats \/ o.status # HTTP_201_CREATED
       /\ cats' = o.cats
       /\ nextCatId' = IF o.status = HTTP_201_CREATED THEN nextCatId + 1 ELSE nextCatId
       /\ resp' = Response("cat_create", u, o.id, o.status, 0, {})
       /\ UNCHANGED <<tasks, nextTaskId, now, flight>>

\* get_object of the category views, over Category.objects.filter(user=...).
GetCategoryStatus(table, u, id) ==
    IF id \notin UserCats(table, u) THEN HTTP_404_NOT_FOUND
    ELSE IF table[id].user = u THEN HTTP_200_OK ELSE HTTP_403_FORBIDDEN

\* What CustomCategoryUpdateAPIView.update / partial_update makes of the
\* Category table: patch carries the name or another field only, and PUT
\* requires the name.
CategoryUpdateOutcome(table, u, id, patch, partial) ==
    IF GetCategoryStatus(table, u, id) # HTTP_200_OK
    THEN [status |-> GetCategoryStatus(table, u, id), cats |-> table]
    ELSE IF \/ ("name" \notin DOMAIN patch /\ ~partial)
            \/ ("name" \in DOMAIN patch /\ ~ValidateNameOk(table, u, patch.name, {id}))
            \/ ("color" \in DOMAIN patch /\ ~ValidateColorOk(patch.color))
    THEN [status |-> HTTP_400_BAD_REQUEST, cats |-> table]
    ELSE LET c == CategoryClean(
                     [f \in DOMAIN table[id] |->
                         IF f \in DOMAIN patch
                         THEN (IF f = "name" THEN TitleCase(Strip(patch[f])) ELSE patch[f])
                         ELSE table[id][f]])
         IN IF ~UniqueTogetherOk(table, id, c)
            THEN [status |-> HTTP_500_INTERNAL_SERVER_ERROR, cats |-> table]
            ELSE [status |-> HTTP_200_OK, cats |-> Put(table, id, c)]

\* CustomCategoryUpdateAPIView.update / partial_update
CustomCategoryUpdateAPIView(u, id, patch, partial) ==
    /\ cats' = CategoryUpdateOutcome(cats, u, id, patch, partial).cats
    /\ resp' = Response("cat_update", u, id,
                        CategoryUpdateOutcome(cats, u, id, patch, partial).status, 0, {})
    /\ UNCHANGED <<tasks, nextTaskId, nextCatId, now, flight>>

\* on_delete=models.SET_NULL of Task.custom_category: what deleting category
\* c makes of the Task table.
OnDeleteMutant(table, c) == [i \in DOMAIN table \ TaskSet(table, c) |-> table[i]]
OnDelete(table, c) ==
    [i \in DOMAIN table |->
        IF table[i].custom_category = c
        THEN [table[i] EXCEPT !.custom_category = NoCat]
        ELSE table[i]]

\* CustomCategoryDestroyAPIView.destroy
CustomCategoryDestroyAPIView(u, id) ==
    /\ cdel.pc = "idle"
    /\ IF GetCategoryStatus(cats, u, id) # HTTP_200_OK
       THEN /\ resp' = Response("cat_destroy", u, id, GetCategoryStatus(cats, u, id), 0, {})
            /\ UNCHANGED <<tasks, cats>>
       ELSE IF Cardinality(TaskSet(tasks, id)) > 0
       THEN /\ resp' = Response("cat_destroy", u, id, HTTP_400_BAD_REQUEST,
                                Cardinality(TaskSet(tasks, id)), {})
            /\ UNCHANGED <<tasks, cats>>
       ELSE /\ tasks' = OnDelete(tasks, id)
            /\ cats' = Remove(cats, id)
            /\ resp' = Response("cat_destroy", u, id, HTTP_200_OK, 0, {})
    /\ UNCHANGED <<nextTaskId, nextCatId, now, flight>>

\* ----------------------------------------------------------------- CatSpec
\* The category handlers, with the tasks that reference categories.
NameInputs == StringsUpTo(MaxNameLen)
CatPatchInputs == {[name |-> n] : n \in NameInputs} \cup {[description |-> "d"]}

CatNext ==
    \/ \E u \in Users, name \in NameInputs : CustomCategoryCreateAPIView(u, name)
    \/ \E u \in Users, id \in CatIds, patch \in CatPatchInputs, partial \in BOOLEAN :
          CustomCategoryUpdateAPIView(u, id, patch, partial)
    \/ \E u \in Users, id \in CatIds : CustomCategoryDestroyAPIView(u, id)
    \/ \E u \in Users, custom \in CatIds \cup {NoCat} :
          TaskCreateAPIView(u, <<"a", "b", "a">>, "MEDIUM", NoCategory, custom, NoTime)
    \/ \E u \in Users, id \in TaskIds : TaskDestroyAPIView(u, id)

CatSpec == Init /\ [][CatNext]_vars

\* ---------------------------------------------------------------- ConcSpec
\* The bulk update and the category delete, as the statements they send to
\* the database one after the other; each statement is committed when it is
\* made (no transaction spans the view), and other requests run in between.

\* The largest id of a non-empty set: the first row of a queryset in the
\* model's default ordering, -created_at.
MaxOf(ids) == CHOOSE i \in ids : \A j \in ids : j <= i

\* The foreign key constraint of Task.custom_category, which the database
\* checks on every write of a Task row.
ForeignKeyOk(table, t) == t.custom_category = NoCat \/ t.custom_category \in DOMAIN table

\* BulkTaskStatusUpdateAPIView.patch up to the start of its loop: the request
\* is validated, the matching rows are counted and fetched.
BulkStart(u, ids, v) ==
    /\ bulk.pc = "idle"
    /\ IF ids = {} \/ v = JsonNull
       THEN /\ resp' = BulkResponse(u, ids, HTTP_400_BAD_REQUEST, {})
            /\ UNCHANGED bulk
       ELSE IF BulkMatched(tasks, u, ids) = {}
       THEN /\ resp' = BulkResponse(u, ids, HTTP_404_NOT_FOUND, {})
            /\ UNCHANGED bulk
       ELSE /\ bulk' = [pc |-> "saving", user |-> u, given |-> ids, v |-> v,
                        rows |-> [i \in BulkMatched(tasks, u, ids) |-> tasks[i]],
                        todo |-> BulkMatched(tasks, u, ids)]
            /\ UNCHANGED resp
    /\ UNCHANGED <<store, now, cdel, stats, edit, auth>>

\* One pass of the loop: the next fetched task is changed and saved. The save
\* writes the row as it was fetched (an UPDATE, or an INSERT when the row is
\* gone); a row the database rejects ends the request with a server error.
BulkSaveStep ==
    /\ bulk.pc = "saving"
    /\ bulk.todo # {}
    /\ LET i == MaxOf(bulk.todo)
           t == BulkSaveOne(bulk.rows[i], bulk.v, now)
       IN IF ForeignKeyOk(cats, t)
          THEN /\ tasks' = Put(tasks, i, t)
               /\ bulk' = [bulk EXCEPT !.todo = @ \ {i}]
               /\ UNCHANGED resp
          ELSE /\ resp' = BulkResponse(bulk.user, bulk.given,
                                       HTTP_500_INTERNAL_SERVER_ERROR, {})
               /\ bulk' = Idle
               /\ UNCHANGED tasks
    /\ UNCHANGED <<nextTaskId, cats, nextCatId, now, cdel, stats, edit, auth>>

\* The end of the loop: the response reports the count taken before the loop.
BulkFinish ==
    /\ bulk.pc = "saving"
    /\ bulk.todo = {}
    /\ resp' = [BulkResponse(bulk.user, bulk.given, HTTP_200_OK,
                             BulkMatched(tasks, bulk.user, bulk.given))
                   EXCEPT !.count = Cardinality(DOMAIN bulk.rows)]
    /\ bulk' = Idle
    /\ UNCHANGED <<store, now, cdel, stats, edit, auth>>

\* The request is interrupted inside the loop (the worker dies, the database
\* connection is lost) after some task was saved: what was saved stays saved.
BulkInterrupt ==
    /\ bulk.pc = "saving"
    /\ bulk.todo # {}
    /\ bulk.todo # DOMAIN bulk.rows
    /\ resp' = BulkResponse(bulk.user, bulk.given, HTTP_500_INTERNAL_SERVER_ERROR, {})
    /\ bulk' = Idle
    /\ UNCHANGED <<store, now, cdel, stats, edit, auth>>

\* CustomCategoryDestroyAPIView.destroy up to its reference check: get_object
\* and task_set.count().
CategoryDestroyCheck(u, id) ==
    /\ cdel.pc = "idle"
    /\ IF GetCategoryStatus(cats, u, id) # HTTP_200_OK
       THEN /\ resp' = Response("cat_destroy", u, id, GetCategoryStatus(cats, u, id), 0, {})
            /\ UNCHANGED cdel
       ELSE IF Cardinality(TaskSet(tasks, id)) > 0
       THEN /\ resp' = Response("cat_destroy", u, id, HTTP_400_BAD_REQUEST,
                                Cardinality(TaskSet(tasks, id)), {})
            /\ UNCHANGED cdel
       ELSE /\ cdel' = [pc |-> "checked", user |-> u, id |-> id]
            /\ UNCHANGED resp
    /\ UNCHANGED <<store, now, bulk, stats, edit, auth>>

\* perform_destroy: instance.delete() clears the references to the category
\* and deletes its row in one transaction.
CategoryDestroyPerform ==
    /\ cdel.pc = "checked"
    /\ tasks' = OnDelete(tasks, cdel.id)
    /\ cats' = Remove(cats, cdel.id)
    /\ resp' = Response("cat_destroy", cdel.user, cdel.id, HTTP_200_OK, 0, {})
    /\ cdel' = Idle
    /\ UNCHANGED <<nextTaskId, nextCatId, now, bulk, stats, edit, auth>>

\* A task is created with a system category or with a custom one.
CategoryChoices == {<<"WORK", NoCat>>} \cup {<<NoCategory, c>> : c \in CatIds}

ConcNext ==
    \/ \E u \in Users :
          TaskCreateAPIView(u, <<"a", "b", "a">>, "MEDIUM", "WORK", NoCat, NoTime)
    \/ \E u \in Users, id \in TaskIds : TaskDestroyAPIView(u, id)
    \/ \E u \in Users : TaskListAPIView(u, NoFilters)
    \/ \E u \in Users, ids \in SUBSET TaskIds, v \in JsonBooleans : BulkStart(u, ids, v)
    \/ BulkSaveStep
    \/ BulkFinish
    \/ BulkInterrupt

ConcSpec == Init /\ [][ConcNext]_vars

\* The category delete in steps, among the requests that create and delete
\* tasks and categories, and a bulk update of all tasks in steps.
DeleteNext ==
    \/ \E u \in Users, k \in CategoryChoices :
          TaskCreateAPIView(u, <<"a", "b", "a">>, "MEDIUM", k[1], k[2], NoTime)
    \/ \E u \in Users, id \in TaskIds : TaskDestroyAPIView(u, id)
    \/ \E u \in Users : CustomCategoryCreateAPIView(u, <<"a">>)
    \/ \E u \in Users, id \in CatIds : CategoryDestroyCheck(u, id)
    \/ CategoryDestroyPerform
    \/ \E u \in Users : BulkStart(u, TaskIds, JsonTrue)
    \/ BulkSaveStep
    \/ BulkFinish

DeleteSpec == Init /\ [][DeleteNext]_vars

\* ------------------------------------------------------------ task detail
\* dict(CATEGORY_CHOICES): the display name of each category code.
CategoryNames ==
    ("WORK" :> "Work") @@ ("PERSONAL" :> "Personal") @@ ("FITNESS" :> "Fitness")
    @@ ("SHOPPING" :> "Shopping") @@ ("HEALTH" :> "Health")
    @@ ("EDUCATION" :> "Education") @@ ("FINANCE" :> "Finance") @@ ("OTHER" :> "Other")

\* dict(CATEGORY_CHOICES).get(code, code)
CategoryDisplay(code) == IF code \in DOMAIN CategoryNames THEN CategoryNames[code] ELSE code

\* Task.effective_category of task t, the Category table being ctable.
effective_categoryMutant(t, ctable) ==
    IF t.category # NoCategory
    THEN [type |-> "default", code |-> t.category, name |-> CategoryDisplay(t.category)]
    ELSE IF t.custom_category # NoCat
    THEN [type |-> "custom", id |-> t.custom_category,
          name |-> ctable[t.custom_category].name,
          color |-> ctable[t.custom_category].color]
    ELSE [type |-> "default", code |-> "OTHER", name |-> "Other"]
effective_category(t, ctable) ==
    IF t.custom_category # NoCat
    THEN [type |-> "custom", id |-> t.custom_category,
          name |-> ctable[t.custom_category].name,
          color |-> ctable[t.custom_category].color]
    ELSE IF t.category # NoCategory
    THEN [type |-> "default", code |-> t.category, name |-> CategoryDisplay(t.category)]
    ELSE [type |-> "default", code |-> "OTHER", name |-> "Other"]

\* Task.is_overdue at time clock.
is_overdueMutant(t, clock) == IF t.due_date # NoTime THEN clock > t.due_date ELSE FALSE
is_overdue(t, clock) ==
    IF t.due_date # NoTime /\ ~t.is_completed THEN clock > t.due_date ELSE FALSE

\* Task.days_until_due: None (the empty sequence) without a due date;
\* otherwise the days of the timedelta due_date - now, which is the whole
\* number of days at or below the difference (timedelta normalizes with
\* 0 <= seconds < 86400), in a sequence of one number.
days_until_due(t, clock) ==
    IF t.due_date # NoTime
    THEN <<(t.due_date - clock) \div TicksPerDay>>
    ELSE << >>

\* TaskDetailSerializer(task).data: the stored fields and the read-only
\* properties computed when the response is written.
TaskDetailSerializer(t, ctable, clock) ==
    [category |-> t.category, custom_category |-> t.custom_category,
     effective_category |-> effective_category(t, ctable),
     due_date |-> t.due_date, is_completed |-> t.is_completed,
     completed_at |-> t.completed_at, is_overdue |-> is_overdue(t, clock),
     days_until_due |-> days_until_due(t, clock)]

\* What TaskRetrieveAPIView.retrieve answers with the body: get_object, then
\* the serialized task.
RetrieveData(table, ctable, clock, u, id) ==
    IF GetObjectStatus(table, u, id) # HTTP_200_OK
    THEN RetrieveResponse(table, u, id)
    ELSE [op |-> "retrieve", user |-> u, id |-> id, status |-> HTTP_200_OK, count |-> 0,
          ids |-> {id}, given |-> {},
          task |-> TaskDetailSerializer(table[id], ctable, clock)]

\* TaskRetrieveAPIView.retrieve, the response with its body.
TaskRetrieveAPIViewData(u, id) ==
    /\ resp' = RetrieveData(tasks, cats, now, u, id)
    /\ UNCHANGED <<store, now, flight>>

CategoryInputs == {NoCategory, "WORK"}
DueInputs == {NoTime, 1}
ColorInputs == {"#FF0000", "red"}

\* The task detail among the requests that make the tasks and categories it
\* reads: tasks with and without either category and due date, categories and
\* their colors, completion, and the passing of time.
DetailNext ==
    \/ CustomCategoryCreateAPIView("alice", <<"a">>)
    \/ \E id \in CatIds, v \in ColorInputs :
          CustomCategoryUpdateAPIView("alice", id, [color |-> v], TRUE)
    \/ \E category \in CategoryInputs, custom \in {NoCat} \cup CatIds, due \in DueInputs :
          TaskCreateAPIView("alice", <<"a", "b", "a">>, "MEDIUM", category, custom, due)
    \/ \E id \in TaskIds, v \in BOOLEAN :
          TaskUpdateAPIView("alice", id, [is_completed |-> v], TRUE)
    \/ \E u \in Users, id \in TaskIds : TaskRetrieveAPIViewData(u, id)
    \/ Tick

DetailSpec == Init /\ [][DetailNext]_vars

\* ---------------------------------------------------------------- ownership
\* Request bodies that name an owner and a custom category, of the requester
\* or of someone else.
CreateBodies ==
    {[title |-> <<"a", "b", "a">>, custom_category |-> c, user |-> v] :
        c \in {NoCat} \cup CatIds, v \in Users}
OwnerPatches ==
    {[custom_category |-> c, priority |-> "HIGH"] : c \in CatIds}
    \cup {[user |-> v, is_completed |-> TRUE] : v \in Users}

\* Every request that writes a task, by two users who own categories; a body
\* that names an owner names another user than the requester.
OwnerNext ==
    \/ \E u \in Users : CustomCategoryCreateAPIView(u, <<"a">>)
    \/ \E u \in Users, data \in CreateBodies : data.user # u /\ TaskCreate(u, data)
    \/ \E u \in Users, id \in TaskIds, patch \in OwnerPatches :
          /\ "user" \in DOMAIN patch => patch.user # u
          /\ TaskUpdateAPIView(u, id, patch, TRUE)
    \/ \E u \in Users, id \in TaskIds : \E v \in Users \ {u} :
          TaskUpdateAPIView(u, id, [title |-> <<"a", "b", "a">>, user |-> v], FALSE)
    \/ \E u \in Users : BulkTaskStatusUpdateAPIView(u, TaskIds, JsonFalse)
    \/ \E u \in Users, id \in TaskIds :
          task_edit_view(u, id, <<"a", "b", "a">>, "MEDIUM", "WORK", NoTime)
    \/ \E u \in Users, id \in TaskIds : toggle_task_complete(u, id)

OwnerSpec == Init /\ [][OwnerNext]_vars

\* ------------------------------------------------------------------- titles
\* A title of n characters.
TitleOfLen(n) == [i \in 1..n |-> "a"]

\* Titles around the two limits: blank, shorter than three characters with
\* and without blanks around them, three characters, and one over the maximum.
TitleLengths ==
    {<<" ">>, <<"a">>, <<"a", "b">>, <<" ", "a", "b", " ">>, <<"a", "b", "a">>,
     TitleOfLen(TitleMaxLength + 1)}

\* The requests that write a title, through the JSON API and the web forms.
TitleNext ==
    \/ \E u \in Users, title \in TitleLengths : TaskCreate(u, [title |-> title])
    \/ \E u \in Users, id \in TaskIds, title \in TitleLengths, partial \in BOOLEAN :
          TaskUpdateAPIView(u, id, [title |-> title], partial)
    \/ \E u \in Users, title \in TitleLengths :
          task_create_view(u, title, "MEDIUM", "WORK", NoTime)
    \/ \E u \in Users, id \in TaskIds, title \in TitleLengths :
          task_edit_view(u, id, title, "MEDIUM", "WORK", NoTime)

TitleSpec == Init /\ [][TitleNext]_vars

\* --------------------------------------------------------------- statistics
\* The largest count the rate's arithmetic is checked for.
MaxCount == 7

\* round(a / b, 0) for integers a >= 0 and b > 0, halves to the even side.
RoundDiv(a, b) ==
    IF 2 * (a % b) > b \/ (2 * (a % b) = b /\ (a \div b) % 2 = 1)
    THEN (a \div b) + 1
    ELSE a \div b

\* The decimal places the callers round completion_rate to: two in the JSON
\* API, one in the web dashboard.
ApiDigits == 2
WebDigits == 1
RECURSIVE PowerOfTen(_)
PowerOfTen(n) == IF n = 0 THEN 1 ELSE 10 * PowerOfTen(n - 1)

\* round((completed / total * 100), digits) if total > 0 else 0, as a whole
\* number of units of 10^-digits (33.33 is 3333 at two digits).
CompletionRateMutant(completed, total, digits) ==
    IF total > 0 THEN RoundDiv(completed * 100 * PowerOfTen(digits), total)
    ELSE 100 * PowerOfTen(digits)
CompletionRate(completed, total, digits) ==
    IF total > 0 THEN RoundDiv(completed * 100 * PowerOfTen(digits), total) ELSE 0

\* The count() queries of the statistics views over user_tasks =
\* Task.objects.filter(user=request.user).
CountTotal(table, u) == Cardinality(UserTasks(table, u))
CountCompleted(table, u) == Cardinality({i \in UserTasks(table, u) : table[i].is_completed})
CountPending(table, u) == Cardinality({i \in UserTasks(table, u) : ~table[i].is_completed})
CountHighPending(table, u) ==
    Cardinality({i \in UserTasks(table, u) : table[i].priority = "HIGH" /\ ~table[i].is_completed})
\* A count that takes a task due at this very instant as overdue.
CountOverdueMutant(table, u, clock) ==
    Cardinality({i \in UserTasks(table, u) :
                    /\ table[i].due_date # NoTime
                    /\ table[i].due_date <= clock
                    /\ ~table[i].is_completed})

\* overdue_tasks: filter(due_date__lt=now, is_completed=False).count()
CountOverdue(table, u, clock) ==
    Cardinality({i \in UserTasks(table, u) :
                    /\ table[i].due_date # NoTime
                    /\ table[i].due_date < clock
                    /\ ~table[i].is_completed})

\* The entry of one category code, or of one priority code, in the breakdown
\* views: the three counts of the tasks with that code and their rate.
Breakdown(table, ids) ==
    [total_tasks |-> Cardinality(ids),
     completed_tasks |-> Cardinality({i \in ids : table[i].is_completed}),
     pending_tasks |-> Cardinality({i \in ids : ~table[i].is_completed}),
     completion_rate |->
         CompletionRate(Cardinality({i \in ids : table[i].is_completed}),
                        Cardinality(ids), ApiDigits)]

\* The body of a statistics response made of the three counts: the counts,
\* and the rate at the caller's precision.
StatsBody(total, completed, pending, digits) ==
    [total_tasks |-> total, completed_tasks |-> completed, pending_tasks |-> pending,
     completion_rate |-> CompletionRate(completed, total, digits)]

\* A statistics response: 200 with the overall body, the overdue and
\* high-priority counts and the breakdown by code (empty where the view has
\* none).
StatsResponse(op, u, body, overdue, high, breakdown) ==
    [op |-> op, user |-> u, id |-> 0, status |-> HTTP_200_OK, count |-> 0, ids |-> {},
     given |-> {}, stats |-> body, overdue_tasks |-> overdue,
     high_priority_pending |-> high, breakdown |-> breakdown]

\* Statistics of a whole request served over one state of the table.
OverallBody(table, u, digits) ==
    StatsBody(CountTotal(table, u), CountCompleted(table, u), CountPending(table, u), digits)

\* Tasks by category of UserTaskStatsAPIView: the count per category code.
CategoryCounts(table, u) ==
    [c \in CATEGORY_CHOICES |->
        Cardinality({i \in UserTasks(table, u) : table[i].category = c})]

\* UserTaskStatsAPIView.get
UserTaskStatsAPIView(u) ==
    /\ resp' = StatsResponse("stats", u, OverallBody(tasks, u, ApiDigits),
                             CountOverdue(tasks, u, now), CountHighPending(tasks, u),
                             CategoryCounts(tasks, u))
    /\ UNCHANGED <<store, now, flight>>

\* TaskCategoriesAPIView.get
TaskCategoriesAPIView(u) ==
    /\ resp' = [op |-> "categories", user |-> u, id |-> 0, status |-> HTTP_200_OK,
                count |-> 0, ids |-> {}, given |-> {},
                breakdown |->
                    [c \in CATEGORY_CHOICES |->
                        Breakdown(tasks, {i \in UserTasks(tasks, u) : tasks[i].category = c})]]
    /\ UNCHANGED <<store, now, flight>>

\* TaskPrioritiesAPIView.get
TaskPrioritiesAPIView(u) ==
    /\ resp' = [op |-> "priorities", user |-> u, id |-> 0, status |-> HTTP_200_OK,
                count |-> 0, ids |-> {}, given |-> {},
                breakdown |->
                    [p \in PRIORITY_CHOICES |->
                        Breakdown(tasks, {i \in UserTasks(tasks, u) : tasks[i].priority = p})]]
    /\ UNCHANGED <<store, now, flight>>

\* top_categories of TaskDashboardAPIView: the categories with tasks, each
\* with its count and completion rate.
TopCategories(table, u) ==
    [c \in {k \in CATEGORY_CHOICES : \E i \in UserTasks(table, u) : table[i].category = k} |->
        Breakdown(table, {i \in UserTasks(table, u) : table[i].category = c})]

\* Days are numbered so that day 0 is a Monday; date.weekday() is 0 on a
\* Monday and 6 on a Sunday.
DaysPerWeek == 7
Weekday(day) == day % DaysPerWeek

\* The last day of the due_this_week range: today + timedelta(days=6).
WeekRangeEnd(today) == today + 6

\* time_based of TaskDashboardAPIView: the pending tasks past their due date,
\* those due on today's date, and those due on a date of the range
\* [this_week_start, today + 6 days].
TimeBased(table, u, clock) ==
    LET today == DateOf(clock)
        this_week_start == today - Weekday(today)
        pending == {i \in UserTasks(table, u) :
                        table[i].due_date # NoTime /\ ~table[i].is_completed}
    IN  [overdue |-> CountOverdue(table, u, clock),
         due_today |-> Cardinality({i \in pending : DateOf(table[i].due_date) = today}),
         due_this_week |->
            Cardinality({i \in pending :
                            /\ this_week_start <= DateOf(table[i].due_date)
                            /\ DateOf(table[i].due_date) <= WeekRangeEnd(today)})]

\* TaskDashboardAPIView.get: the overview (its urgent_tasks in the
\* high_priority_pending place of the response), the top categories and the
\* time-based counts.
TaskDashboardAPIView(u) ==
    /\ resp' = StatsResponse("dashboard", u, OverallBody(tasks, u, ApiDigits),
                             CountOverdue(tasks, u, now),
                             Cardinality(UrgentQueryset(tasks, u, now)),
                             TopCategories(tasks, u))
                @@ [time_based |-> TimeBased(tasks, u, now)]
    /\ UNCHANGED <<store, now, flight>>

\* dashboard_view (the web dashboard's context)
dashboard_view(u) ==
    /\ resp' = StatsResponse("web_dashboard", u, OverallBody(tasks, u, WebDigits),
                             CountOverdue(tasks, u, now), CountHighPending(tasks, u), << >>)
    /\ UNCHANGED <<store, now, flight>>

\* task_stats_api
task_stats_api(u) ==
    /\ resp' = StatsResponse("web_stats", u, OverallBody(tasks, u, WebDigits),
                             CountOverdue(tasks, u, now), CountHighPending(tasks, u), << >>)
    /\ UNCHANGED <<store, now, flight>>

\* The statistics views among the requests that create, complete, reopen and
\* delete tasks of either priority, with and without category and due date.
DashNext ==
    \/ \E u \in Users, p \in PriorityInputs, c \in CategoryInputs, due \in DueInputs :
          TaskCreateAPIView(u, <<"a", "b", "a">>, p, c, NoCat, due)
    \/ \E u \in Users, id \in TaskIds, v \in BOOLEAN :
          TaskUpdateAPIView(u, id, [is_completed |-> v], TRUE)
    \/ \E u \in Users, id \in TaskIds : TaskDestroyAPIView(u, id)
    \/ \E u \in Users : UserTaskStatsAPIView(u)
    \/ \E u \in Users : TaskCategoriesAPIView(u)
    \/ \E u \in Users : TaskPrioritiesAPIView(u)
    \/ \E u \in Users : TaskDashboardAPIView(u)
    \/ \E u \in Users : dashboard_view(u)
    \/ \E u \in Users : task_stats_api(u)
    \/ Tick

DashSpec == Init /\ [][DashNext]_vars

\* UserTaskStatsAPIView.get in steps, one per count() query of the three
\* counts; other requests are served between the steps. The last step runs
\* the remaining queries and answers.
StatsTotal(u) ==
    /\ stats.pc = "idle"
    /\ stats' = [pc |-> "total", user |-> u, total |-> CountTotal(tasks, u)]
    /\ UNCHANGED <<store, now, resp, bulk, cdel, edit, auth>>

StatsCompleted ==
    /\ stats.pc = "total"
    /\ stats' = [pc |-> "completed", user |-> stats.user, total |-> stats.total,
                 completed |-> CountCompleted(tasks, stats.user)]
    /\ UNCHANGED <<store, now, resp, bulk, cdel, edit, auth>>

StatsPending ==
    /\ stats.pc = "completed"
    /\ stats' = [pc |-> "pending", user |-> stats.user, total |-> stats.total,
                 completed |-> stats.completed,
                 pending |-> CountPending(tasks, stats.user)]
    /\ UNCHANGED <<store, now, resp, bulk, cdel, edit, auth>>

StatsFinish ==
    /\ stats.pc = "pending"
    /\ resp' = StatsResponse("stats", stats.user,
                             StatsBody(stats.total, stats.completed, stats.pending, ApiDigits),
                             CountOverdue(tasks, stats.user, now),
                             CountHighPending(tasks, stats.user),
                             CategoryCounts(tasks, stats.user))
    /\ stats' = Idle
    /\ UNCHANGED <<store, now, bulk, cdel, edit, auth>>

\* The statistics request in steps among the requests that create, complete,
\* reopen and delete the requester's tasks.
StatsNext ==
    \/ \E u \in Users : TaskCreateAPIView(u, <<"a", "b", "a">>, "MEDIUM", "WORK", NoCat, NoTime)
    \/ \E u \in Users, id \in TaskIds, v \in BOOLEAN :
          TaskUpdateAPIView(u, id, [is_completed |-> v], TRUE)
    \/ \E u \in Users, id \in TaskIds : TaskDestroyAPIView(u, id)
    \/ \E u \in Users : StatsTotal(u)
    \/ StatsCompleted
    \/ StatsPending
    \/ StatsFinish

StatsSpec == Init /\ [][StatsNext]_vars

\* ------------------------------------------------- update and toggle in steps
\* TaskUpdateAPIView.update up to perform_update: get_object fetches the
\* task, the serializer validates the body.
UpdateLoad(u, id, patch, partial) ==
    /\ edit.pc = "idle"
    /\ IF UpdateResponse(tasks, u, id, patch, partial).status # HTTP_200_OK
       THEN /\ resp' = UpdateResponse(tasks, u, id, patch, partial)
            /\ UNCHANGED edit
       ELSE /\ edit' = [pc |-> "loaded", kind |-> "update", user |-> u, id |-> id,
                        row |-> tasks[id], patch |-> patch]
            /\ UNCHANGED resp
    /\ UNCHANGED <<store, now, bulk, cdel, stats, auth>>

\* toggle_task_complete up to its save: get_object_or_404 fetches the task.
ToggleLoad(u, id) ==
    /\ edit.pc = "idle"
    /\ IF GetObjectOr404(tasks, u, id) # HTTP_200_OK
       THEN /\ resp' = Response("toggle", u, id, HTTP_404_NOT_FOUND, 0, {})
            /\ UNCHANGED edit
       ELSE /\ edit' = [pc |-> "loaded", kind |-> "toggle", user |-> u, id |-> id,
                        row |-> tasks[id], patch |-> << >>]
            /\ UNCHANGED resp
    /\ UNCHANGED <<store, now, bulk, cdel, stats, auth>>

\* The instance a request in flight saves: the fetched row with the body's
\* fields set, or with is_completed flipped and completed_at set to match.
EditedRow(e, clock) ==
    IF e.kind = "update"
    THEN TaskSave(ApplyPatch(e.row, e.patch), clock)
    ELSE TaskSave([e.row EXCEPT !.is_completed = ~e.row.is_completed,
                                !.completed_at = IF ~e.row.is_completed THEN clock ELSE NoTime],
                  clock)

\* The save of the request in flight. Model.save() writes every field of the
\* instance as the request holds it: an UPDATE of the row with the instance's
\* id, and an INSERT of it when the UPDATE matched no row.
EditSave ==
    /\ edit.pc = "loaded"
    /\ IF ForeignKeyOk(cats, EditedRow(edit, now))
       THEN /\ tasks' = Put(tasks, edit.id, EditedRow(edit, now))
            /\ resp' = Response(edit.kind, edit.user, edit.id, HTTP_200_OK, 0,
                                IF edit.kind = "update" THEN {edit.id} ELSE {})
       ELSE /\ resp' = Response(edit.kind, edit.user, edit.id,
                                HTTP_500_INTERNAL_SERVER_ERROR, 0, {})
            /\ UNCHANGED tasks
    /\ edit' = Idle
    /\ UNCHANGED <<nextTaskId, cats, nextCatId, now, bulk, cdel, stats, auth>>

EditPatches == {[priority |-> "HIGH"]}

\* An update, a toggle and a bulk update in steps, among the requests that
\* create, update, toggle, delete, get and list tasks.
EditNext ==
    \/ TaskCreateAPIView("alice", <<"a", "b", "a">>, "MEDIUM", "WORK", NoCat, NoTime)
    \/ \E id \in TaskIds : TaskDestroyAPIView("alice", id)
    \/ \E id \in TaskIds, patch \in EditPatches : TaskUpdateAPIView("alice", id, patch, TRUE)
    \/ \E id \in TaskIds : toggle_task_complete("alice", id)
    \/ \E id \in TaskIds, patch \in EditPatches : UpdateLoad("alice", id, patch, TRUE)
    \/ \E id \in TaskIds : ToggleLoad("alice", id)
    \/ EditSave
    \/ BulkStart("alice", TaskIds, JsonTrue)
    \/ BulkSaveStep
    \/ BulkFinish
    \/ \E u \in Users, id \in TaskIds : TaskRetrieveAPIView(u, id)
    \/ \E u \in Users : TaskListAPIView(u, NoFilters)

EditSpec == Init /\ [][EditNext]_vars

\* ---------------------------------------------------------- authentication
\* At most MaxUsers accounts register and at most MaxKeys token keys are
\* generated.
MaxUsers == 2
MaxKeys == 3
UserIds == 1..MaxUsers

\* An email address is its local part and its domain, a string of Chars.
Usernames == {"alice", "bob"}
Passwords == {"p", "q"}
EmailInputs ==
    {[local |-> "a", domain |-> <<"a">>], [local |-> "a", domain |-> <<"A">>],
     [local |-> "b", domain |-> <<"a">>]}

\* BaseUserManager.normalize_email, which create_user applies: the domain part
\* in lower case.
NormalizeEmail(email) == [email EXCEPT !.domain = Lower(@)]

\* A response of the authentication views: the account it is about, the token
\* key it carries (0 for none) and the fields its errors name.
AuthResponse(op, pk, status, key, errors) ==
    [op |-> op, user |-> pk, id |-> 0, status |-> status, count |-> 0, ids |-> {},
     given |-> {}, token |-> key, errors |-> errors]

\* User.objects.filter(email=value), an exact match.
UsersByEmail(a, email) == {pk \in DOMAIN a.users : a.users[pk].email = email}
UsersByName(a, username) == {pk \in DOMAIN a.users : a.users[pk].username = username}
ProfilesOf(a, pk) == {i \in DOMAIN a.profiles : a.profiles[i].user = pk}
TokensOf(a, pk) == {t \in a.tokens : t.user = pk}

\* A receiver that provisions no profile.
create_user_profileMutant(a, pk, created) == a

\* create_user_profile, on post_save of a User: a UserProfile row for a user
\* that was just created.
create_user_profile(a, pk, created) ==
    IF created
    THEN [a EXCEPT !.profiles = Append(@, [user |-> pk, bio |-> << >>])]
    ELSE a

\* save_user_profile, on post_save of a User: the user's profile, if it has
\* one, is saved again, an UPDATE of its row with the values it holds.
save_user_profile(a, pk) ==
    IF ProfilesOf(a, pk) # {}
    THEN [a EXCEPT !.profiles =
            [i \in DOMAIN @ |-> IF i \in ProfilesOf(a, pk) THEN [@[i] EXCEPT !.bio = @] ELSE @[i]]]
    ELSE a

\* User.save(): the row is written and the post_save receivers run, in the
\* order they were connected.
UserSave(a, pk, row, created) ==
    save_user_profile(
        create_user_profile(
            [a EXCEPT !.users = IF created THEN Append(@, row) ELSE [@ EXCEPT ![pk] = row]],
            pk, created),
        pk)

\* get_or_create that creates a token whether or not the user has one.
GetOrCreateTokenMutant(a, pk) ==
    [a EXCEPT !.tokens = @ \cup {[key |-> a.nextKey, user |-> pk]}, !.nextKey = @ + 1]

\* Token.objects.get_or_create(user=user): the user's token, a new one with a
\* fresh key if there is none.
GetOrCreateToken(a, pk) ==
    IF TokensOf(a, pk) # {}
    THEN a
    ELSE [a EXCEPT !.tokens = @ \cup {[key |-> a.nextKey, user |-> pk]}, !.nextKey = @ + 1]

\* The key of the token get_or_create returned: of a token of the user.
TokenKey(a, pk) == (CHOOSE t \in TokensOf(a, pk) : TRUE).key

\* UserRegistrationSerializer: the fields in error. The email must match no
\* user's exactly and the username must be free; the passwords are compared
\* only when no field is in error.
RegistrationErrors(a, username, email, password, confirm) ==
    LET fields == (IF UsersByName(a, username) # {} THEN {"username"} ELSE {})
                  \cup (IF UsersByEmail(a, email) # {} THEN {"email"} ELSE {})
    IN  IF fields # {} THEN fields
        ELSE IF password # confirm THEN {"password"} ELSE {}

\* UserRegistrationView.create: create_user stores the normalized email; the
\* token is made after the user and its profile.
UserRegistrationView(username, email, password, confirm) ==
    /\ Len(auth.users) < MaxUsers
    /\ auth.nextKey <= MaxKeys
    /\ LET pk == Len(auth.users) + 1
           errors == RegistrationErrors(auth, username, email, password, confirm)
           row == [username |-> username, email |-> NormalizeEmail(email),
                   password |-> password]
       IN  IF errors # {}
           THEN /\ resp' = AuthResponse("register", 0, HTTP_400_BAD_REQUEST, 0, errors)
                /\ UNCHANGED auth
           ELSE /\ auth' = GetOrCreateToken(UserSave(auth, pk, row, TRUE), pk)
                /\ resp' = AuthResponse("register", pk, HTTP_201_CREATED,
                                        TokenKey(auth', pk), {})
    /\ UNCHANGED <<store, now, bulk, cdel, stats, edit>>

\* register_view with CustomUserCreationForm: the username must be free and
\* the two passwords equal; the email is stored as it was typed.
register_view(username, email, password, confirm) ==
    /\ Len(auth.users) < MaxUsers
    /\ LET pk == Len(auth.users) + 1
           errors == (IF UsersByName(auth, username) # {} THEN {"username"} ELSE {})
                     \cup (IF password # confirm THEN {"password2"} ELSE {})
           row == [username |-> username, email |-> email, password |-> password]
       IN  IF errors # {}
           THEN /\ resp' = AuthResponse("web_register", 0, HTTP_200_OK, 0, errors)
                /\ UNCHANGED auth
           ELSE /\ auth' = UserSave(auth, pk, row, TRUE)
                /\ resp' = AuthResponse("web_register", pk, HTTP_302_FOUND, 0, {})
    /\ UNCHANGED <<store, now, bulk, cdel, stats, edit>>

\* EmailLoginView.post: User.objects.get(email=email) finds one user, none
\* (DoesNotExist is caught) or several (MultipleObjectsReturned is not);
\* authenticate checks the password; then the token.
EmailLoginView(email, password) ==
    LET found == UsersByEmail(auth, email)
        pk == CHOOSE u \in found : TRUE
    IN  /\ IF found = {}
           THEN /\ resp' = AuthResponse("login", 0, HTTP_400_BAD_REQUEST, 0,
                                        {"non_field_errors"})
                /\ UNCHANGED auth
           ELSE IF Cardinality(found) > 1
           THEN /\ resp' = AuthResponse("login", 0, HTTP_500_INTERNAL_SERVER_ERROR, 0, {})
                /\ UNCHANGED auth
           ELSE IF auth.users[pk].password # password
           THEN /\ resp' = AuthResponse("login", 0, HTTP_400_BAD_REQUEST, 0,
                                        {"non_field_errors"})
                /\ UNCHANGED auth
           ELSE /\ TokensOf(auth, pk) = {} => auth.nextKey <= MaxKeys
                /\ auth' = GetOrCreateToken(auth, pk)
                /\ resp' = AuthResponse("login", pk, HTTP_200_OK, TokenKey(auth', pk), {})
        /\ UNCHANGED <<store, now, bulk, cdel, stats, edit>>

\* LogoutView.post for the authenticated user pk: the token, if there is one,
\* is deleted; an API request (JSON content type or an Authorization header)
\* is answered 200, any other is redirected to the login page.
LogoutView(pk, is_api_request) ==
    /\ pk \in DOMAIN auth.users
    /\ auth' = [auth EXCEPT !.tokens = @ \ TokensOf(auth, pk)]
    /\ resp' = AuthResponse("logout", pk,
                            IF is_api_request THEN HTTP_200_OK ELSE HTTP_302_FOUND, 0, {})
    /\ UNCHANGED <<store, now, bulk, cdel, stats, edit>>

\* UserUpdateView.update with an email and a bio: validate_email refuses an
\* email that another user holds; the user is saved, then the profile.
UserUpdateView(pk, email, bio) ==
    /\ pk \in DOMAIN auth.users
    /\ IF UsersByEmail(auth, email) \ {pk} # {}
       THEN /\ resp' = AuthResponse("user_update", pk, HTTP_400_BAD_REQUEST, 0, {"email"})
            /\ UNCHANGED auth
       ELSE /\ auth' = LET a == UserSave(auth, pk, [auth.users[pk] EXCEPT !.email = email],
                                         FALSE)
                       IN  [a EXCEPT !.profiles =
                               [i \in DOMAIN @ |->
                                   IF i \in ProfilesOf(a, pk)
                                   THEN [@[i] EXCEPT !.bio = bio] ELSE @[i]]]
            /\ resp' = AuthResponse("user_update", pk, HTTP_200_OK, 0, {})
    /\ UNCHANGED <<store, now, bulk, cdel, stats, edit>>

\* UserProfileView (RetrieveUpdateAPIView over UserProfileSerializer) with an
\* email: the serializer's email field is the model's, which carries no
\* uniqueness; the user is saved.
UserProfileView(pk, email) ==
    /\ pk \in DOMAIN auth.users
    /\ auth' = UserSave(auth, pk, [auth.users[pk] EXCEPT !.email = email], FALSE)
    /\ resp' = AuthResponse("profile_update", pk, HTTP_200_OK, 0, {})
    /\ UNCHANGED <<store, now, bulk, cdel, stats, edit>>

BioInputs == {<<"a">>}

\* Registration through the API and the web form, login, logout, and the two
\* updates of a user.
AuthNext ==
    \/ \E username \in Usernames, email \in EmailInputs, confirm \in Passwords :
          UserRegistrationView(username, email, "p", confirm)
    \/ \E username \in Usernames, email \in EmailInputs, confirm \in Passwords :
          register_view(username, email, "p", confirm)
    \/ \E email \in EmailInputs, password \in Passwords : EmailLoginView(email, password)
    \/ \E pk \in UserIds, is_api_request \in BOOLEAN : LogoutView(pk, is_api_request)
    \/ \E pk \in UserIds, email \in EmailInputs, bio \in BioInputs :
          UserUpdateView(pk, email, bio)
    \/ \E pk \in UserIds, email \in EmailInputs : UserProfileView(pk, email)

AuthSpec == Init /\ [][AuthNext]_vars

\* ------------------------------------------------------------------- reads
\* task_list_view: the requester's tasks under ?status=, rendered in a page.
task_list_view(u, status) ==
    /\ resp' = ListResponse("web_list", u,
                    IF status = "overdue"
                    THEN DueFilter(tasks, UserTasks(tasks, u), "overdue", now)
                    ELSE StatusFilter(tasks, UserTasks(tasks, u), status))
    /\ UNCHANGED <<store, now, flight>>

\* A calendar feed that removes the tasks it has turned into events.
task_calendar_apiMutant(u) ==
    /\ resp' = ListResponse("calendar", u,
                    {i \in UserTasks(tasks, u) : tasks[i].due_date # NoTime})
    /\ tasks' = [i \in DOMAIN tasks \ resp'.ids |-> tasks[i]]
    /\ UNCHANGED <<nextTaskId, cats, nextCatId, now, flight>>

\* task_calendar_api without a date range: one event for each of the
\* requester's tasks that has a due date.
task_calendar_api(u) ==
    /\ resp' = ListResponse("calendar", u,
                    {i \in UserTasks(tasks, u) : tasks[i].due_date # NoTime})
    /\ UNCHANGED <<store, now, flight>>

\* The operations of the statistics and read requests.
ReadOps ==
    {"list", "completed", "pending", "urgent", "by_category", "by_priority", "retrieve",
     "web_detail", "web_list", "calendar", "stats", "categories", "priorities",
     "dashboard", "web_dashboard", "web_stats"}

\* Every statistics and read request among the requests that create and
\* complete tasks and create categories, and the passing of time.
ReadNext ==
    \/ \E u \in Users : CustomCategoryCreateAPIView(u, <<"a">>)
    \/ \E u \in Users, due \in DueInputs :
          TaskCreateAPIView(u, <<"a", "b", "a">>, "HIGH", "WORK", NoCat, due)
    \/ \E u \in Users, id \in TaskIds : TaskUpdateAPIView(u, id, [is_completed |-> TRUE], TRUE)
    \/ \E u \in Users, q \in {NoFilters, [NoFilters EXCEPT !.due = "overdue"]} :
          TaskListAPIView(u, q)
    \/ \E u \in Users : CompletedTasksAPIView(u, NoFilters)
    \/ \E u \in Users : PendingTasksAPIView(u, NoFilters)
    \/ \E u \in Users : UrgentTasksAPIView(u)
    \/ \E u \in Users : TasksByCategoryAPIView(u, "WORK", NoParam)
    \/ \E u \in Users : TasksByPriorityAPIView(u, "HIGH", NoParam)
    \/ \E u \in Users, id \in TaskIds : TaskRetrieveAPIView(u, id)
    \/ \E u \in Users, id \in TaskIds : task_detail_view(u, id)
    \/ \E u \in Users, status \in {NoParam, "overdue"} : task_list_view(u, status)
    \/ \E u \in Users : task_calendar_api(u)
    \/ \E u \in Users : UserTaskStatsAPIView(u)
    \/ \E u \in Users : TaskCategoriesAPIView(u)
    \/ \E u \in Users : TaskPrioritiesAPIView(u)
    \/ \E u \in Users : TaskDashboardAPIView(u)
    \/ \E u \in Users : dashboard_view(u)
    \/ \E u \in Users : task_stats_api(u)
    \/ Tick

ReadSpec == Init /\ [][ReadNext]_vars

\* ------------------------------------------------------------ days until due
\* A due date is sent as the client's present plus a number of days, up to
\* MaxDaysAhead.
MaxDaysAhead == 5
DaysAhead == 0..MaxDaysAhead

\* TaskCreateAPIView.create with the body of its response: the task is saved
\* and then serialized by TaskDetailSerializer, whose is_overdue and
\* days_until_due read the clock again, at the same instant or a later one.
TaskCreateAPIViewData(u, due) ==
    \E later \in {now, now + 1} \cap Times :
        /\ nextTaskId <= MaxTasks
        /\ tasks' = Put(tasks, nextTaskId,
                        TaskSave(CreateInstance(u, [title |-> <<"a", "b", "a">>,
                                                    due_date |-> due]), now))
        /\ nextTaskId' = nextTaskId + 1
        /\ resp' = Response("create_data", u, nextTaskId, HTTP_201_CREATED, 0, {})
                   @@ [task |-> TaskDetailSerializer(tasks'[nextTaskId], cats, later)]
        /\ now' = later
        /\ UNCHANGED <<cats, nextCatId, flight>>

\* Tasks created without a due date, with one in the past and with one a
\* number of days ahead, and read again as time passes.
DaysNext ==
    \/ \E u \in Users : TaskCreateAPIViewData(u, NoTime)
    \/ \E u \in Users, due \in Times : TaskCreateAPIViewData(u, due)
    \/ \E u \in Users, n \in DaysAhead : TaskCreateAPIViewData(u, now + n * TicksPerDay)
    \/ \E u \in Users, id \in TaskIds : TaskRetrieveAPIViewData(u, id)
    \/ Tick

DaysSpec == Init /\ [][DaysNext]_vars

\* ------------------------------------------------------------------- weeks
\* The clock runs from the Monday of day 0 to the Sunday of day 6; due dates
\* lie on that Monday and Sunday and on the Monday and Tuesday after.
MaxWeekTime == 13
WeekDue == {NoTime, 1, 12, 14, 16}

WeekTick ==
    /\ now < MaxWeekTime
    /\ now' = now + 1
    /\ UNCHANGED <<store, resp, flight>>

\* The dashboard on every day of a week, over tasks due in and after the week.
WeekNext ==
    \/ \E due \in WeekDue :
          TaskCreateAPIView("alice", <<"a", "b", "a">>, "MEDIUM", NoCategory, NoCat, due)
    \/ \E id \in TaskIds : TaskUpdateAPIView("alice", id, [is_completed |-> TRUE], TRUE)
    \/ \E u \in Users : TaskDashboardAPIView(u)
    \/ WeekTick

WeekSpec == Init /\ [][WeekNext]_vars

\* ------------------------------------------------------------ urgent tasks
\* summary of UrgentTasksAPIView.list: three counts over the queryset. The
\* queryset carries the clock read in get_queryset; the overdue count filters
\* it again with the clock read in list.
UrgentSummary(table, ids, clock) ==
    [total_urgent |-> Cardinality(ids),
     high_priority |-> Cardinality({i \in ids : table[i].priority = "HIGH"}),
     overdue |-> Cardinality({i \in ids :
                    table[i].due_date # NoTime /\ table[i].due_date < clock})]

\* UrgentTasksAPIView.list with its summary: the tasks are serialized from the
\* queryset built at the first reading of the clock, the overdue count is
\* taken at the second reading, which is the same instant or a later one.
UrgentTasksAPIViewData(u) ==
    \E later \in {now, now + 1} \cap Times :
        /\ resp' = ListResponse("urgent_tasks", u, UrgentQueryset(tasks, u, now))
                   @@ [summary |-> UrgentSummary(tasks, UrgentQueryset(tasks, u, now), later)]
        /\ now' = later
        /\ UNCHANGED <<store, flight>>

\* The urgent list and the dashboard among the requests that create tasks of
\* either priority with and without a due date, complete and reopen them, and
\* the passing of time.
UrgentNext ==
    \/ \E u \in Users, p \in PriorityInputs, due \in DueInputs :
          TaskCreateAPIView(u, <<"a", "b", "a">>, p, NoCategory, NoCat, due)
    \/ \E u \in Users, id \in TaskIds, v \in BOOLEAN :
          TaskUpdateAPIView(u, id, [is_completed |-> v], TRUE)
    \/ \E u \in Users : UrgentTasksAPIViewData(u)
    \/ \E u \in Users : TaskDashboardAPIView(u)
    \/ Tick

UrgentSpec == Init /\ [][UrgentNext]_vars

\* ------------------------------------------------------------------ claims
\* The tasks of the table that user b does not own.
ForeignTasks(b) == {i \in DOMAIN tasks : tasks[i].user # b}

\* C1. Completion invariant: every stored task is completed exactly when its
\* completed_at is set (is_completed => completed_at non-null, and
\* ~is_completed => completed_at null).
C1_CompletionInvariant ==
    \A i \in DOMAIN tasks : tasks[i].is_completed <=> tasks[i].completed_at # NoTime

\* A get, an update or a delete of task id by user b, through the JSON API or
\* the web views.
GetUpdateOrDelete(b, id) ==
    \/ TaskRetrieveAPIView(b, id)
    \/ \E patch \in PatchInputs, partial \in BOOLEAN : TaskUpdateAPIView(b, id, patch, partial)
    \/ TaskDestroyAPIView(b, id)
    \/ task_detail_view(b, id)
    \/ \E title \in TitleInputs, p \in PriorityInputs :
          task_edit_view(b, id, title, p, "WORK", NoTime)
    \/ task_delete_view(b, id)
    \/ toggle_task_complete(b, id)

\* C2. Ownership isolation: a get, update or delete by b of a task owned by
\* another user answers 404 and leaves the task in the table, every field as
\* it was.
C2_OwnershipIsolation ==
    [][\A b \in Users : \A id \in ForeignTasks(b) :
          (resp'.user = b /\ resp'.id = id /\ GetUpdateOrDelete(b, id)) =>
              /\ resp'.status = HTTP_404_NOT_FOUND
              /\ id \in DOMAIN tasks'
              /\ tasks'[id] = tasks[id]]_vars

\* C2 witness: a delete by a user of another user's task was answered 404 and
\* the task is still stored.
C2_Witness ==
    /\ resp.op = "destroy"
    /\ resp.status = HTTP_404_NOT_FOUND
    /\ resp.id \in ForeignTasks(resp.user)

\* C3. No existence leak: what b is answered on get, update and delete of id
\* is the same over the table, where id is another user's task, and over the
\* table without the row id.
C3_NoExistenceLeak ==
    \A b \in Users : \A id \in ForeignTasks(b) :
        /\ RetrieveResponse(tasks, b, id) = RetrieveResponse(Remove(tasks, id), b, id)
        /\ DestroyResponse(tasks, b, id) = DestroyResponse(Remove(tasks, id), b, id)
        /\ \A patch \in PatchInputs, partial \in BOOLEAN :
              UpdateResponse(tasks, b, id, patch, partial)
                  = UpdateResponse(Remove(tasks, id), b, id, patch, partial)
        /\ GetObjectOr404(tasks, b, id) = GetObjectOr404(Remove(tasks, id), b, id)

\* C3 witness: a retrieve of another user's stored task was answered as the
\* table without that task answers it.
C3_Witness ==
    /\ resp.op = "retrieve"
    /\ resp.id \in ForeignTasks(resp.user)
    /\ resp = RetrieveResponse(Remove(tasks, resp.id), resp.user, resp.id)

\* The tasks a bulk request (u, ids) is about: listed and owned by u.
ListedAndOwned(u, ids) == {i \in ids \cap DOMAIN tasks : tasks[i].user = u}

\* C5. A bulk update by u of ids with completed = v, at least one id owned by
\* u, answers 200 with updated_count the number of listed tasks u owns; those
\* tasks get is_completed = v with completed_at set exactly when completed and
\* every other field kept; every other task is unchanged and no task is added
\* or removed.
C5_BulkFrame ==
    [][\A u \in Users, ids \in SUBSET TaskIds, v \in JsonBooleans :
          (/\ resp'.op = "bulk" /\ resp'.user = u /\ resp'.given = ids
           /\ BulkTaskStatusUpdateAPIView(u, ids, v)
           /\ ListedAndOwned(u, ids) # {}) =>
              /\ resp'.status = HTTP_200_OK
              /\ resp'.count = Cardinality(ListedAndOwned(u, ids))
              /\ DOMAIN tasks' = DOMAIN tasks
              /\ \A i \in DOMAIN tasks :
                    IF i \in ListedAndOwned(u, ids)
                    THEN /\ tasks'[i].is_completed = (v = JsonTrue)
                         /\ tasks'[i].is_completed <=> tasks'[i].completed_at # NoTime
                         /\ [tasks'[i] EXCEPT !.is_completed = FALSE, !.completed_at = NoTime]
                              = [tasks[i] EXCEPT !.is_completed = FALSE, !.completed_at = NoTime]
                    ELSE tasks'[i] = tasks[i]]_vars

\* C5 witness: a bulk update that listed a task of another user beside the
\* requester's own was answered 200 and counted only the requester's.
C5_Witness ==
    /\ resp.op = "bulk"
    /\ resp.status = HTTP_200_OK
    /\ resp.given \cap ForeignTasks(resp.user) # {}
    /\ resp.count = 1
    /\ \A i \in resp.ids : tasks[i].is_completed

\* C6 as claimed. A bulk update none of whose ids is a task of the requester
\* answers 404 and changes no task.
C6_NotFoundWhenNoneOwned ==
    [][\A u \in Users, ids \in SUBSET TaskIds, v \in JsonBooleans :
          (/\ resp'.op = "bulk" /\ resp'.user = u /\ resp'.given = ids
           /\ BulkTaskStatusUpdateAPIView(u, ids, v)
           /\ ListedAndOwned(u, ids) = {}) =>
              (resp'.status = HTTP_404_NOT_FOUND /\ tasks' = tasks)]_vars

\* C6 amended. A bulk update with a non-empty ids list and is_completed
\* supplied, none of whose ids is a task of the requester, answers 404 and
\* changes no task; with an empty ids list or without is_completed it answers
\* 400 and changes no task either.
C6_NotFoundWhenNoneOwnedOfSome ==
    [][\A u \in Users, ids \in SUBSET TaskIds, v \in JsonValues :
          (/\ resp'.op = "bulk" /\ resp'.user = u /\ resp'.given = ids
           /\ BulkTaskStatusUpdateAPIView(u, ids, v)
           /\ ListedAndOwned(u, ids) = {}) =>
              /\ tasks' = tasks
              /\ resp'.status = IF ids = {} \/ v = JsonNull
                                THEN HTTP_400_BAD_REQUEST
                                ELSE HTTP_404_NOT_FOUND]_vars

\* C6 witness: a bulk update whose ids were all tasks of another user was
\* answered 404.
C6_Witness ==
    /\ resp.op = "bulk"
    /\ resp.status = HTTP_404_NOT_FOUND
    /\ resp.given # {}
    /\ resp.given \subseteq ForeignTasks(resp.user)

\* The list-type reads of user u.
ListRead(u) ==
    \/ \E q \in ListQueries : TaskListAPIView(u, q)
    \/ \E q \in ListQueries : CompletedTasksAPIView(u, q)
    \/ \E q \in ListQueries : PendingTasksAPIView(u, q)
    \/ UrgentTasksAPIView(u)
    \/ \E status \in StatusInputs : TasksByCategoryAPIView(u, "WORK", status)
    \/ \E status \in StatusInputs : TasksByPriorityAPIView(u, "HIGH", status)

ListOps == {"list", "completed", "pending", "urgent", "by_category", "by_priority"}

\* C4. Every list-type read (list, completed, pending, urgent, by-category,
\* by-priority) by u returns only tasks that u owns, and the list without
\* filters returns exactly the tasks that u owns.
C4_ListsOnlyOwnTasks ==
    [][\A u \in Users :
          /\ (resp'.op \in ListOps /\ resp'.user = u /\ ListRead(u)) =>
                \A i \in resp'.ids : i \in DOMAIN tasks /\ tasks[i].user = u
          /\ (resp'.op = "list" /\ resp'.user = u /\ TaskListAPIView(u, NoFilters)) =>
                resp'.ids = {i \in DOMAIN tasks : tasks[i].user = u}]_vars

\* C4 witness: while another user had a task stored, the list without filters
\* returned the requester's tasks and nothing else.
C4_Witness ==
    /\ resp.op = "list"
    /\ ForeignTasks(resp.user) # {}
    /\ resp.ids # {}
    /\ resp.ids = {i \in DOMAIN tasks : tasks[i].user = resp.user}

\* The categories of user u whose name equals name when case is ignored.
Alike(u, name) == {i \in DOMAIN cats : cats[i].user = u /\ Lower(cats[i].name) = Lower(name)}

\* C8. A delete of a category by its owner is refused with 400, the category
\* and every task left as they were, when a task references the category; it
\* answers 200 and removes the category, and only it, when no task does.
C8_DeleteRefusedWhenReferenced ==
    [][\A u \in Users, id \in CatIds :
          (/\ resp'.op = "cat_destroy" /\ resp'.user = u /\ resp'.id = id
           /\ id \in DOMAIN cats /\ cats[id].user = u
           /\ CustomCategoryDestroyAPIView(u, id)) =>
              IF \E i \in DOMAIN tasks : tasks[i].custom_category = id
              THEN /\ resp'.status = HTTP_400_BAD_REQUEST
                   /\ cats' = cats
                   /\ tasks' = tasks
              ELSE /\ resp'.status = HTTP_200_OK
                   /\ cats' = Remove(cats, id)
                   /\ tasks' = tasks]_vars

\* C8 witness: the owner's delete of a category that a task references was
\* refused; the category is still stored.
C8_Witness ==
    /\ resp.op = "cat_destroy"
    /\ resp.status = HTTP_400_BAD_REQUEST
    /\ resp.id \in DOMAIN cats
    /\ cats[resp.id].user = resp.user
    /\ \E i \in DOMAIN tasks : tasks[i].custom_category = resp.id

\* C10. In every reachable state no user owns two categories whose names are
\* equal when case is ignored; a create, or a rename, to a name that another
\* category of the same owner has when case is ignored is answered 400 and
\* leaves the Category table as it is; a create or rename to any other
\* non-blank name, names that only other owners have included, is accepted.
C10_CaseInsensitiveUnique ==
    /\ \A i, j \in DOMAIN cats :
          (i # j /\ cats[i].user = cats[j].user) => Lower(cats[i].name) # Lower(cats[j].name)
    /\ \A u \in Users, name \in NameInputs :
          LET o == CategoryCreateOutcome(cats, nextCatId, u, name)
          IN IF Alike(u, Strip(name)) # {}
             THEN o.status = HTTP_400_BAD_REQUEST /\ o.cats = cats
             ELSE Strip(name) # << >> =>
                    /\ o.status = HTTP_201_CREATED
                    /\ o.cats = Put(cats, nextCatId,
                                    [user |-> u, name |-> TitleCase(Strip(name)),
                                     color |-> DefaultColor])
    /\ \A u \in Users, name \in NameInputs, partial \in BOOLEAN :
          \A id \in {i \in DOMAIN cats : cats[i].user = u} :
             LET o == CategoryUpdateOutcome(cats, u, id, [name |-> name], partial)
             IN IF Alike(u, Strip(name)) \ {id} # {}
                THEN o.status = HTTP_400_BAD_REQUEST /\ o.cats = cats
                ELSE Strip(name) # << >> =>
                       /\ o.status = HTTP_200_OK
                       /\ o.cats = Put(cats, id,
                                       [cats[id] EXCEPT !.name = TitleCase(Strip(name))])

\* C10 witness: two users each own a category of the same name, and a create
\* of that name in another case by one of them was answered 400.
C10_Witness ==
    /\ resp.op = "cat_create"
    /\ resp.status = HTTP_400_BAD_REQUEST
    /\ \E i, j \in DOMAIN cats :
          /\ cats[i].user = resp.user
          /\ cats[j].user # resp.user
          /\ cats[i].name = cats[j].name

\* Between two saves of a bulk update in flight: a fetched task already has
\* the new value, which it did not have when fetched, and another fetched task
\* does not have it yet.
PartlyApplied ==
    /\ bulk.pc = "saving"
    /\ \E i, j \in DOMAIN bulk.rows \cap DOMAIN tasks :
          /\ tasks[i].is_completed = ToPython(bulk.v)
          /\ bulk.rows[i].is_completed # ToPython(bulk.v)
          /\ tasks[j].is_completed # ToPython(bulk.v)

\* C7. The bulk update is all-or-nothing: when it ends in a failure after some
\* matched tasks were written, every matched task has the is_completed it had
\* before, and no read by another request sees only part of the matched tasks
\* with the new value.
C7_BulkAllOrNothing ==
    [][/\ (bulk.pc = "saving" /\ bulk'.pc = "idle"
           /\ resp'.status = HTTP_500_INTERNAL_SERVER_ERROR) =>
             \A i \in DOMAIN bulk.rows \cap DOMAIN tasks' :
                tasks'[i].is_completed = bulk.rows[i].is_completed
       /\ \A u \in Users : TaskListAPIView(u, NoFilters) => ~PartlyApplied]_vars

\* C9. Deleting a category deletes no task and leaves no task referencing a
\* category that is not stored: a step that removes a category keeps the set
\* of task ids and every task, but for the reference to the removed category,
\* which is cleared; this also when a task that references the category was
\* created after the delete's reference check.
C9_DeleteKeepsTasks ==
    [][/\ \A i \in DOMAIN tasks' :
             tasks'[i].custom_category # NoCat => tasks'[i].custom_category \in DOMAIN cats'
       /\ \A c \in DOMAIN cats \ DOMAIN cats' :
             /\ DOMAIN tasks' = DOMAIN tasks
             /\ \A i \in DOMAIN tasks :
                   tasks'[i] = IF tasks[i].custom_category = c
                               THEN [tasks[i] EXCEPT !.custom_category = NoCat]
                               ELSE tasks[i]]_vars

\* C9 witness: a category was deleted after a task that referenced it had
\* been created behind the delete's reference check; the task is stored, with
\* neither a custom nor a system category.
C9_Witness ==
    /\ resp.op = "cat_destroy"
    /\ resp.status = HTTP_200_OK
    /\ resp.id \notin DOMAIN cats
    /\ \E i \in DOMAIN tasks :
          tasks[i].custom_category = NoCat /\ tasks[i].category = NoCategory

\* A name without a blank at either end.
IsTrimmed(s) == s = << >> \/ (s[1] # " " /\ s[Len(s)] # " ")

\* A name in title case: a cased character is a capital exactly when it is
\* the first or follows an uncased character.
IsTitleCased(s) ==
    \A i \in 1..Len(s) :
        IsCased(s[i]) =>
            IF i > 1 /\ IsCased(s[i - 1]) THEN s[i] \in Letters ELSE s[i] \in Capitals

\* The normalized form of a category name: trimmed, in title case.
Normalize(s) == TitleCase(Strip(s))

\* C11. Every stored category name is trimmed and in title case and is its own
\* normal form; a create or a rename that is accepted stores normalize(input);
\* and the uniqueness check cannot tell the raw input from its normal form:
\* the request is answered the same for both, and a non-blank name is refused
\* exactly when the requester has another category whose stored name is
\* normalize(input).
C11_NamesNormalized ==
    /\ \A i \in DOMAIN cats :
          /\ IsTrimmed(cats[i].name)
          /\ IsTitleCased(cats[i].name)
          /\ Normalize(cats[i].name) = cats[i].name
    /\ \A u \in Users, name \in NameInputs :
          LET o == CategoryCreateOutcome(cats, nextCatId, u, name)
          IN /\ o.status = HTTP_201_CREATED =>
                   /\ o.cats[o.id].name = Normalize(name)
                   /\ IsTrimmed(o.cats[o.id].name) /\ IsTitleCased(o.cats[o.id].name)
             /\ o = CategoryCreateOutcome(cats, nextCatId, u, Normalize(name))
             /\ Strip(name) # << >> =>
                   (o.status = HTTP_400_BAD_REQUEST <=>
                       \E i \in DOMAIN cats :
                          cats[i].user = u /\ cats[i].name = Normalize(name))
    /\ \A u \in Users, name \in NameInputs, partial \in BOOLEAN :
          \A id \in {i \in DOMAIN cats : cats[i].user = u} :
             LET o == CategoryUpdateOutcome(cats, u, id, [name |-> name], partial)
             IN /\ o.status = HTTP_200_OK =>
                      /\ o.cats[id].name = Normalize(name)
                      /\ IsTrimmed(o.cats[id].name) /\ IsTitleCased(o.cats[id].name)
                /\ o = CategoryUpdateOutcome(cats, u, id, [name |-> Normalize(name)], partial)
                /\ Strip(name) # << >> =>
                      (o.status = HTTP_400_BAD_REQUEST <=>
                          \E i \in DOMAIN cats \ {id} :
                             cats[i].user = u /\ cats[i].name = Normalize(name))

\* C11 witness: a rename was accepted and stored the two-letter name in title
\* case, the name another user's category has as well.
C11_Witness ==
    /\ resp.op = "cat_update"
    /\ resp.status = HTTP_200_OK
    /\ resp.id \in DOMAIN cats
    /\ cats[resp.id].name = <<"A", "a">>
    /\ \E j \in DOMAIN cats : cats[j].user # resp.user /\ cats[j].name = <<"A", "a">>

\* C12. The effective category in every task detail follows custom over
\* default: with custom_category set it is of type custom with that
\* category's id, name and color, category set or not; otherwise with category
\* set it is of type default with that code and the code's display name;
\* otherwise it is of type default with code OTHER and name Other.
C12_EffectiveCategory ==
    (resp.op = "retrieve" /\ resp.status = HTTP_200_OK /\ "task" \in DOMAIN resp) =>
        LET t == resp.task
            e == resp.task.effective_category
        IN IF t.custom_category # NoCat
           THEN /\ DOMAIN e = {"type", "id", "name", "color"}
                /\ e.type = "custom"
                /\ e.id = t.custom_category
                /\ e.name = cats[t.custom_category].name
                /\ e.color = cats[t.custom_category].color
           ELSE IF t.category # NoCategory
           THEN /\ DOMAIN e = {"type", "code", "name"}
                /\ e.type = "default"
                /\ e.code = t.category
                /\ t.category = "WORK" => e.name = "Work"
           ELSE e = [type |-> "default", code |-> "OTHER", name |-> "Other"]

\* C12 witness: the detail of a task that has both categories set, whose
\* custom category has another color than the default.
C12_Witness ==
    /\ resp.op = "retrieve" /\ resp.status = HTTP_200_OK /\ "task" \in DOMAIN resp
    /\ resp.task.category = "WORK"
    /\ resp.task.custom_category # NoCat
    /\ resp.task.effective_category.type = "custom"
    /\ resp.task.effective_category.color = "#FF0000"

\* C13. Every stored task has at least one of category and custom_category
\* populated: a task created with neither is stored with category OTHER, and
\* no update leaves a task with both empty.
C13_CategoryPopulated ==
    \A i \in DOMAIN tasks :
        tasks[i].category # NoCategory \/ tasks[i].custom_category # NoCat

\* A category that exists and is owned by someone other than u.
ForeignCats(u) == {c \in DOMAIN cats : cats[c].user # u}

\* C14 as stated. The custom category of every task is a category of the
\* task's owner, and a task create or a task update that references a
\* category of a different user is refused (400) and stores nothing.
C14_ForeignCategoryRefused ==
    [][/\ \A i \in DOMAIN tasks' :
             tasks'[i].custom_category # NoCat =>
                /\ tasks'[i].custom_category \in DOMAIN cats'
                /\ cats'[tasks'[i].custom_category].user = tasks'[i].user
       /\ \A u \in Users, data \in CreateBodies :
             (/\ resp'.op = "create" /\ resp'.user = u
              /\ data.custom_category \in ForeignCats(u)
              /\ TaskCreate(u, data))
             => (resp'.status = HTTP_400_BAD_REQUEST /\ tasks' = tasks)
       /\ \A u \in Users, id \in TaskIds, patch \in OwnerPatches :
             (/\ resp'.op = "update" /\ resp'.user = u /\ resp'.id = id
              /\ id \in UserTasks(tasks, u)
              /\ "custom_category" \in DOMAIN patch
              /\ patch.custom_category \in ForeignCats(u)
              /\ TaskUpdateAPIView(u, id, patch, TRUE))
             => (resp'.status = HTTP_400_BAD_REQUEST /\ tasks' = tasks)
      ]_vars

\* C14, amended. The custom category of every task is a category of the
\* task's owner; a task create that references a category of a different
\* user is refused (400) and stores nothing; a task update cannot set the
\* custom category: a custom_category in its body, whoever owns it, is
\* dropped, the task keeps the custom category it has, and the other fields
\* of the body are stored.
C14_ForeignCategoryNeverStored ==
    [][/\ \A i \in DOMAIN tasks' :
             tasks'[i].custom_category # NoCat =>
                /\ tasks'[i].custom_category \in DOMAIN cats'
                /\ cats'[tasks'[i].custom_category].user = tasks'[i].user
       /\ \A u \in Users, data \in CreateBodies :
             (/\ resp'.op = "create" /\ resp'.user = u
              /\ data.custom_category \in ForeignCats(u)
              /\ TaskCreate(u, data))
             => (resp'.status = HTTP_400_BAD_REQUEST /\ tasks' = tasks)
       /\ \A u \in Users, id \in TaskIds, patch \in OwnerPatches :
             (/\ resp'.op = "update" /\ resp'.user = u /\ resp'.id = id
              /\ id \in UserTasks(tasks, u)
              /\ "custom_category" \in DOMAIN patch
              /\ TaskUpdateAPIView(u, id, patch, TRUE))
             => /\ resp'.status = HTTP_200_OK
                /\ tasks'[id].custom_category = tasks[id].custom_category
                /\ tasks'[id].priority = patch.priority
      ]_vars

\* C14 witness: a create that named another user's category was refused while
\* the requester has a task with a custom category of their own, whose
\* priority an update that named the foreign category has set.
C14_Witness ==
    /\ resp.op = "create" /\ resp.status = HTTP_400_BAD_REQUEST
    /\ ForeignCats(resp.user) # {}
    /\ \E i \in UserTasks(tasks, resp.user) :
          /\ tasks[i].custom_category \in UserCats(cats, resp.user)
          /\ tasks[i].priority = "HIGH"

\* The trimmed length of a title is within the limits.
TitleLengthOk(title) ==
    Len(Strip(title)) >= TitleMinLength /\ Len(Strip(title)) <= TitleMaxLength

\* C15. Every stored title is trimmed and between 3 and 200 characters long,
\* whichever entry point wrote it: a task create, and a task update that
\* supplies a title, with a title whose trimmed length is below 3 or above
\* 200 is refused (400) and leaves the store unchanged.
C15_TitleLength ==
    [][/\ \A i \in DOMAIN tasks' :
             tasks'[i].title = Strip(tasks'[i].title) /\ TitleLengthOk(tasks'[i].title)
       /\ \A u \in Users, title \in TitleLengths :
             (/\ resp'.op = "create" /\ resp'.user = u
              /\ ~TitleLengthOk(title)
              /\ TaskCreate(u, [title |-> title]))
             => (resp'.status = HTTP_400_BAD_REQUEST /\ tasks' = tasks)
       /\ \A u \in Users, id \in TaskIds, title \in TitleLengths, partial \in BOOLEAN :
             (/\ resp'.op = "update" /\ resp'.user = u /\ resp'.id = id
              /\ id \in UserTasks(tasks, u)
              /\ ~TitleLengthOk(title)
              /\ TaskUpdateAPIView(u, id, [title |-> title], partial))
             => (resp'.status = HTTP_400_BAD_REQUEST /\ tasks' = tasks)
      ]_vars

\* C16. The owner of a task is the user who issued the create request,
\* whatever the body of the request names as owner, and no later request
\* (update, partial update, bulk update, toggle, web edit) changes the owner
\* of any task.
C16_OwnerFixed ==
    [][/\ \A i \in DOMAIN tasks \cap DOMAIN tasks' : tasks'[i].user = tasks[i].user
       /\ \A i \in DOMAIN tasks' \ DOMAIN tasks :
             resp'.op = "create" /\ resp'.id = i /\ tasks'[i].user = resp'.user
      ]_vars

\* C16 witness: a task was updated by its owner with a request that named the
\* other user as owner and completed the task, and the requester still owns it.
C16_Witness ==
    /\ resp.op = "update" /\ resp.status = HTTP_200_OK
    /\ resp.id \in UserTasks(tasks, resp.user)
    /\ tasks[resp.id].is_completed
    /\ tasks[resp.id].priority = "MEDIUM"

\* C17. A write that leaves a completed task completed keeps its completed_at;
\* completed_at gets a new timestamp only when a pending task becomes
\* completed; and a task that a write leaves pending has no completed_at.
C17_CompletedAtKept ==
    [][\A i \in DOMAIN tasks \cap DOMAIN tasks' :
          /\ (tasks[i].is_completed /\ tasks'[i].is_completed)
                => tasks'[i].completed_at = tasks[i].completed_at
          /\ (tasks'[i].completed_at # tasks[i].completed_at /\ tasks'[i].completed_at # NoTime)
                => (~tasks[i].is_completed /\ tasks'[i].is_completed)
          /\ (tasks'[i] # tasks[i] /\ ~tasks'[i].is_completed)
                => tasks'[i].completed_at = NoTime
      ]_vars

\* The responses of the statistics and dashboard views.
StatOps == {"stats", "dashboard", "web_dashboard", "web_stats"}

\* C18. Every stats and dashboard response has total = completed + pending,
\* also when other requests create, complete or delete the requester's tasks
\* while the response is computed.
C18_TotalIsCompletedPlusPending ==
    (resp.op \in StatOps /\ resp.status = HTTP_200_OK) =>
        resp.stats.total_tasks = resp.stats.completed_tasks + resp.stats.pending_tasks

\* The decimal places of the rates in the response to op.
DigitsOf(op) == IF op \in {"web_dashboard", "web_stats"} THEN WebDigits ELSE ApiDigits

\* The rate of a body of counts, in units of 10^-digits, is between 0 and 100,
\* is completed / total x 100 to within half a unit when total > 0, and is 0
\* when total = 0.
RateOk(b, digits) ==
    /\ b.completion_rate >= 0
    /\ b.completion_rate <= 100 * PowerOfTen(digits)
    /\ b.total_tasks > 0 =>
          LET d == b.completion_rate * b.total_tasks
                   - b.completed_tasks * 100 * PowerOfTen(digits)
          IN 2 * d <= b.total_tasks /\ -2 * d <= b.total_tasks
    /\ b.total_tasks = 0 => b.completion_rate = 0

\* C19. The completion rate of every statistics response, overall and in
\* every entry of the breakdowns by category and by priority, is within
\* [0, 100], is completed / total x 100 when total > 0 and 0 when total = 0,
\* and every statistics request is answered (200); the same holds of the rate
\* computed from any counts completed <= total <= MaxCount, at both
\* precisions.
C19_CompletionRate ==
    /\ resp.op \in StatOps => (resp.status = HTTP_200_OK /\ RateOk(resp.stats, DigitsOf(resp.op)))
    /\ resp.op \in {"categories", "priorities", "dashboard"} =>
          /\ resp.status = HTTP_200_OK
          /\ \A c \in DOMAIN resp.breakdown : RateOk(resp.breakdown[c], ApiDigits)
    /\ \A total \in 0..MaxCount, digits \in {ApiDigits, WebDigits} :
          \A completed \in 0..total :
             RateOk(StatsBody(total, completed, total - completed, digits), digits)

\* C19 witness: a breakdown by priority with a priority that has no task
\* (rate 0) and one of whose two tasks one is completed (rate 50.00).
C19_Witness ==
    /\ resp.op = "priorities"
    /\ \E p, q \in DOMAIN resp.breakdown :
          /\ resp.breakdown[p].total_tasks = 0 /\ resp.breakdown[p].completion_rate = 0
          /\ resp.breakdown[q].total_tasks = 2 /\ resp.breakdown[q].completed_tasks = 1
          /\ resp.breakdown[q].completion_rate = 5000

\* C20. The is_overdue of every task detail is true exactly when the task is
\* pending, has a due date and the due date is before now (the time of the
\* request: every request that is not the passing of time answers); a task without due
\* date is not overdue and matches neither due=today nor due=overdue; a
\* completed task is not overdue, matches no due=overdue and is not among the
\* urgent tasks, whatever its due date; and a write that completes an overdue
\* task leaves it not overdue and with completed_at set.
C20_Overdue ==
    [][/\ (resp'.op = "retrieve" /\ "task" \in DOMAIN resp' /\ now' = now) =>
             (resp'.task.is_overdue <=>
                 /\ ~resp'.task.is_completed
                 /\ resp'.task.due_date # NoTime
                 /\ resp'.task.due_date < now')
       /\ \A i \in DOMAIN tasks' :
             /\ tasks'[i].due_date = NoTime =>
                   /\ ~is_overdue(tasks'[i], now')
                   /\ i \notin DueFilter(tasks', DOMAIN tasks', "today", now')
                   /\ i \notin DueFilter(tasks', DOMAIN tasks', "overdue", now')
             /\ tasks'[i].is_completed =>
                   /\ ~is_overdue(tasks'[i], now')
                   /\ i \notin DueFilter(tasks', DOMAIN tasks', "overdue", now')
                   /\ i \notin UrgentQueryset(tasks', tasks'[i].user, now')
       /\ \A i \in DOMAIN tasks \cap DOMAIN tasks' :
             (is_overdue(tasks[i], now) /\ tasks'[i].is_completed) =>
                (~is_overdue(tasks'[i], now') /\ tasks'[i].completed_at # NoTime)
      ]_vars

\* C20 witness: the detail of a task that was completed after its due date
\* had passed, read as not overdue.
C20_Witness ==
    /\ resp.op = "retrieve" /\ "task" \in DOMAIN resp
    /\ resp.task.due_date = 1
    /\ resp.task.is_completed
    /\ resp.task.completed_at = 2
    /\ ~resp.task.is_overdue
    /\ now = 2

\* The tasks of user u that are pending and HIGH priority or overdue at clock.
UrgentOf(table, u, clock) ==
    {i \in UserTasks(table, u) :
        /\ ~table[i].is_completed
        /\ (table[i].priority = "HIGH" \/ is_overdue(table[i], clock))}

\* C21. Urgent is a set union: every urgent-tasks response lists exactly the
\* requester's pending tasks that are HIGH priority or overdue (at the instant
\* the request built its queryset), each once and none completed;
\* total_urgent is their number and the number of listed tasks;
\* total_urgent = high_priority + overdue - (tasks counted by both), and
\* max(high_priority, overdue) <= total_urgent <= high_priority + overdue.
\* The dashboard's urgent_tasks is the number of the same set.
C21_UrgentIsUnion ==
    [][/\ (resp'.op = "urgent_tasks" /\ UrgentTasksAPIViewData(resp'.user)) =>
            LET s == resp'.summary
                U == UrgentOf(tasks, resp'.user, now)
                both == Cardinality({i \in resp'.ids :
                            /\ tasks[i].priority = "HIGH"
                            /\ is_overdue(tasks[i], now')})
            IN  /\ resp'.ids = U
                /\ \A i \in resp'.ids : ~tasks[i].is_completed
                /\ resp'.count = s.total_urgent
                /\ s.total_urgent = Cardinality(U)
                /\ s.total_urgent = s.high_priority + s.overdue - both
                /\ s.high_priority <= s.total_urgent
                /\ s.overdue <= s.total_urgent
                /\ s.total_urgent <= s.high_priority + s.overdue
       /\ (resp'.op = "dashboard" /\ TaskDashboardAPIView(resp'.user)) =>
            resp'.high_priority_pending = Cardinality(UrgentOf(tasks, resp'.user, now))
      ]_vars

\* An urgent-tasks response for two tasks, one of them both HIGH priority and
\* overdue and the other overdue only: the sum of the two counts is three.
C21_Witness ==
    /\ resp.op = "urgent_tasks"
    /\ resp.summary = [total_urgent |-> 2, high_priority |-> 1, overdue |-> 2]
    /\ \E i \in resp.ids : tasks[i].priority = "HIGH" /\ is_overdue(tasks[i], now)

\* The pending tasks of user u due on a day from the Monday of the week of
\* clock to the Sunday after it.
DueInWeekOf(table, u, clock) ==
    LET monday == DateOf(clock) - Weekday(DateOf(clock))
    IN  {i \in UserTasks(table, u) :
            /\ ~table[i].is_completed
            /\ table[i].due_date # NoTime
            /\ monday <= DateOf(table[i].due_date)
            /\ DateOf(table[i].due_date) <= monday + 6}

\* C22. The dashboard's due_this_week is the number of the requester's
\* pending tasks whose due date falls on a day from Monday of the current week
\* through the following Sunday, on whichever weekday the dashboard is
\* requested.
C22_DueThisWeek ==
    [][(resp'.op = "dashboard" /\ TaskDashboardAPIView(resp'.user)) =>
          resp'.time_based.due_this_week =
              Cardinality(DueInWeekOf(tasks, resp'.user, now))]_vars

\* C23. days_until_due is null exactly when the task has no due_date;
\* otherwise it is the signed whole number of days from now to due_date: a
\* task created with its due_date set N days ahead reports N in the response
\* to its creation, and a task whose due_date lies in the past reports a
\* negative number.
C23_DaysUntilDue ==
    [][/\ (/\ resp'.op \in {"create_data", "retrieve"}
           /\ resp'.status \in {HTTP_200_OK, HTTP_201_CREATED}
           /\ resp' # resp) =>
            /\ (resp'.task.days_until_due = << >>) <=> (resp'.task.due_date = NoTime)
            /\ (resp'.task.due_date # NoTime /\ resp'.task.due_date < now') =>
                  resp'.task.days_until_due[1] < 0
       /\ \A n \in DaysAhead :
            (resp'.op = "create_data"
             /\ TaskCreateAPIViewData(resp'.user, now + n * TicksPerDay)) =>
                resp'.task.days_until_due = <<n>>
      ]_vars

\* C24. The statistics and read requests (stats, dashboard, category and
\* priority breakdowns, urgent, completed and pending lists, list, get, the
\* web pages and the calendar feed) leave every task and every category
\* unchanged: the store after the request equals the store before it.
C24_ReadsChangeNothing ==
    [][(resp'.op \in ReadOps /\ resp' # resp) => store' = store]_vars

\* A dashboard answered over two tasks, one of them completed, which are both
\* still in the table.
C24_Witness ==
    /\ resp.op = "dashboard"
    /\ resp.stats.total_tasks = 2
    /\ resp.stats.completed_tasks = 1
    /\ Cardinality(UserTasks(tasks, resp.user)) = 2

\* The tasks of user u for which is_overdue is true at clock.
OverdueOf(table, u, clock) == {i \in UserTasks(table, u) : is_overdue(table[i], clock)}

\* C25. Every overdue selection denotes the same set: the tasks listed under
\* the overdue filter (API list and web list), and the overdue counts of the
\* stats, the dashboard (overview and time_based), the web dashboard, the web
\* stats and the unfiltered pending list, are the set, or the number, of the
\* requester's tasks whose is_overdue is true at the now of the request.
C25_OverdueSelectionsAgree ==
    [][LET O == OverdueOf(tasks, resp'.user, now)
       IN  /\ (resp'.op = "list"
               /\ TaskListAPIView(resp'.user, [NoFilters EXCEPT !.due = "overdue"])) =>
                 resp'.ids = O
           /\ (resp'.op = "web_list" /\ task_list_view(resp'.user, "overdue")) =>
                 resp'.ids = O
           /\ (resp'.op \in {"stats", "dashboard", "web_dashboard", "web_stats"}
               /\ resp' # resp) =>
                 resp'.overdue_tasks = Cardinality(O)
           /\ (resp'.op = "dashboard" /\ resp' # resp) =>
                 resp'.time_based.overdue = Cardinality(O)
           /\ (resp'.op = "pending" /\ PendingTasksAPIView(resp'.user, NoFilters)) =>
                 resp'.overdue_count = Cardinality(O)
      ]_vars

\* A stats response counting one overdue task of two: the other is completed
\* and past its due date as well.
C25_Witness ==
    /\ resp.op = "stats"
    /\ resp.overdue_tasks = 1
    /\ resp.stats.completed_tasks = 1
    /\ \A i \in UserTasks(tasks, resp.user) :
          tasks[i].due_date # NoTime /\ tasks[i].due_date < now

\* C26. In every reachable state each user account has exactly one profile
\* record: the save that creates the user creates the profile in the same
\* step, and no later save of the user adds a second profile or removes the
\* first.
C26_OneProfilePerUser ==
    /\ \A pk \in DOMAIN auth.users : Cardinality(ProfilesOf(auth, pk)) = 1
    /\ \A i \in DOMAIN auth.profiles : auth.profiles[i].user \in DOMAIN auth.users

\* Two accounts, one registered through the API and one through the web form,
\* after a user update has saved the first one again and written its profile.
C26_Witness ==
    /\ Len(auth.users) = 2
    /\ resp.op = "user_update"
    /\ resp.status = HTTP_200_OK
    /\ \E i \in ProfilesOf(auth, resp.user) : auth.profiles[i].bio # << >>
    /\ \E pk \in DOMAIN auth.users : TokensOf(auth, pk) = {} /\ pk # resp.user

\* The parts of the token lifecycle that concern the tokens: at most one per
\* user; a successful login returns the existing token and leaves the table
\* alone when the user has one, and adds one token with a new key when not; a
\* logout leaves its user without token and the others' tokens alone; a user
\* without token gets one only by logging in.
TokenSteps ==
    /\ \A pk \in DOMAIN auth'.users : Cardinality(TokensOf(auth', pk)) <= 1
    /\ (/\ resp'.op = "login" /\ resp'.status = HTTP_200_OK
        /\ \E email \in EmailInputs, password \in Passwords : EmailLoginView(email, password)) =>
            IF TokensOf(auth, resp'.user) # {}
            THEN /\ auth'.tokens = auth.tokens
                 /\ resp'.token = TokenKey(auth, resp'.user)
            ELSE /\ auth'.tokens = auth.tokens \cup {[key |-> resp'.token, user |-> resp'.user]}
                 /\ \A t \in auth.tokens : t.key # resp'.token
    /\ (resp'.op = "logout" /\ \E api \in BOOLEAN : LogoutView(resp'.user, api)) =>
            /\ TokensOf(auth', resp'.user) = {}
            /\ auth'.tokens = auth.tokens \ TokensOf(auth, resp'.user)
    /\ \A pk \in DOMAIN auth.users :
            (TokensOf(auth, pk) = {} /\ TokensOf(auth', pk) # {}) =>
                (resp'.op = "login" /\ resp'.status = HTTP_200_OK /\ resp'.user = pk)

C28_EmailsUnique ==
    [][/\ \A p, q \in DOMAIN auth'.users :
            p # q => auth'.users[p].email # auth'.users[q].email
       /\ \A email \in EmailInputs :
            (/\ resp'.op = "register"
             /\ UsersByEmail(auth, email) # {}
             /\ \E username \in Usernames, confirm \in Passwords :
                    UserRegistrationView(username, email, "p", confirm)) =>
                (resp'.status = HTTP_400_BAD_REQUEST /\ "email" \in resp'.errors)
       /\ \A email \in EmailInputs :
            (/\ resp'.op = "user_update"
             /\ UsersByEmail(auth, email) \ {resp'.user} # {}
             /\ \E bio \in BioInputs : UserUpdateView(resp'.user, email, bio)) =>
                (resp'.status = HTTP_400_BAD_REQUEST /\ "email" \in resp'.errors)
      ]_vars

\* The ids of the tasks that were deleted: ids are handed out in order and a
\* row leaves the table only by a delete.
Deleted == {i \in TaskIds : i < nextTaskId /\ i \notin DOMAIN tasks}

\* C29. A deleted task stays deleted: once a delete has succeeded, no step of
\* any request, in whatever order the steps of the requests in flight (bulk
\* update, update, toggle) come, puts a task with that id into the table, and
\* no get or list by any user returns it.
C29_DeletedStaysDeleted ==
    [][\A i \in Deleted :
          /\ i \notin DOMAIN tasks'
          /\ (resp'.op \in {"retrieve", "list"} /\ resp' # resp) => i \notin resp'.ids
      ]_vars

\* The save, in this step, of the update in flight (an update whose body has
\* no is_completed) over the stored task i.
UpdateSaves(i) ==
    /\ edit.pc = "loaded" /\ edit.kind = "update" /\ edit.id = i
    /\ "is_completed" \notin DOMAIN edit.patch
    /\ edit' = Idle

\* The save, in this step, of a completion change in flight (toggle or bulk
\* update) over the stored task i.
CompletionSaves(i) ==
    \/ edit.pc = "loaded" /\ edit.kind = "toggle" /\ edit.id = i /\ edit' = Idle
    \/ bulk.pc = "saving" /\ i \in bulk.todo /\ bulk' = [bulk EXCEPT !.todo = @ \ {i}]

\* C30. No lost update between requests that change different fields of the
\* same task: the save of an update that does not supply is_completed leaves
\* is_completed and completed_at as they are stored, and the save of a
\* completion change (bulk update or toggle) leaves title and priority as they
\* are stored, so that the task carries both changes when both requests have
\* succeeded.
C30_NoLostUpdate ==
    [][\A i \in DOMAIN tasks \cap DOMAIN tasks' :
          /\ UpdateSaves(i) =>
                /\ tasks'[i].is_completed = tasks[i].is_completed
                /\ tasks'[i].completed_at = tasks[i].completed_at
          /\ CompletionSaves(i) =>
                /\ tasks'[i].title = tasks[i].title
                /\ tasks'[i].priority = tasks[i].priority
      ]_vars

====
